---- MODULE Spec2Model ----
(***************************************************************************)
(* goDegen: the GoDegen trade-execution contract (contracts/GoDegen.sol),  *)
(* the manual trade flow of the TradingInterface component, the            *)
(* auto-trading loop of the AutoTrading component, and one trade flow of   *)
(* either component followed stage by stage.                               *)
(*                                                                         *)
(* Amounts are integers in the token's base units.  The pair traded is     *)
(* USDC -> target token throughout, as in the components.                  *)
(***************************************************************************)
EXTENDS Integers, Sequences, FiniteSets, TLC

(***************************************************************************)
(* Program constants                                                       *)
(***************************************************************************)
MAX_SLIPPAGE == 5000

MIN_TRADE_AMOUNT == 100000

\* uint24[] SUPPORTED_FEES of the first GoDegen contract
SUPPORTED_FEES == <<100, 500, 3000, 10000>>

\* preferredFees of the later findBestPool
preferredFees == <<500, 3000, 100, 10000>>

\* feeTiers of the components
feeTiers == <<100, 500, 3000, 10000>>

Fees == {100, 500, 3000, 10000}

(***************************************************************************)
(* Bounds of the model                                                     *)
(***************************************************************************)
\* largest amount the quoter or the router returns
MaxQuote == 100000

\* most fee tiers of the pair with a deployed pool
MaxPools == 2

\* the smaller of the two non-zero pool balances
LiqUnit == 10000000

PosQuotes == {1, MaxQuote \div 3, MaxQuote}

Liqs == {LiqUnit, 2 * LiqUnit}

\* trade amounts set in the components
FrontAmounts == {MIN_TRADE_AMOUNT - 1, 10 * MIN_TRADE_AMOUNT, 20 * MIN_TRADE_AMOUNT}

QuoteKinds == {"revert", "zero", "ok"}

Senders == {"owner", "aiOracle", "user"}

TokenPair == {"USDC", "CBBTC"}

(***************************************************************************)
(* The chain as the factory, the pools and the quoter show it for the      *)
(* pair: per fee tier, whether a pool is deployed, the pool's tokenIn      *)
(* balance, and what the quoter answers for that pool.                     *)
(***************************************************************************)
TierStates ==
    {[pool |-> FALSE, liq |-> 0, quote |-> "revert"],
     [pool |-> TRUE, liq |-> 0, quote |-> "revert"]}
    \cup [pool : {TRUE}, liq : Liqs, quote : QuoteKinds]

\* pool states with at most MaxPools deployed pools
Snapshots ==
    {s \in [Fees -> TierStates] : Cardinality({f \in Fees : s[f].pool}) <= MaxPools}

VARIABLES
    snap,               \* the pools of the pair
    whitelistedTokens,  \* GoDegen.whitelistedTokens
    lastCall,           \* the last call of the GoDegen contract and its result
    sel,                \* the pool and quote the front end settled on
    poolQuotes,         \* GoDegen.poolQuotes: the entries that are set
    now,                \* Date.now(), in ms from an origin TRADE_COOLDOWN before the page loads
    ticks,              \* number of clock steps taken
    revision,           \* which of the three TradingInterface components is mounted
    degenMode,          \* TradingInterface degenMode
    autoTrading,        \* TradingInterface autoTrading (first revision)
    lastTradeTimes,     \* TradingInterface lastTradeTimes, 0 where absent
    trade,              \* per token, the executeTrade call under way
    lastOutcome,        \* the tradingLogs entry of the executeTrade call that ended last
    cycles,             \* running checkAndExecuteTrade calls, counted per stage
    autoTradingInterval, \* AutoTrading interval: 0 when cleared, else when it is due
    settings,           \* AutoTrading settings
    loading,            \* AutoTrading loading: loadSettings has not finished
    updateSettingsCall, \* the updateSettings call under way
    lastSuccessAt,      \* when the last auto trade was confirmed, 0 if none
    lastSubmit,         \* the last executeManualTrade sent by a cycle
    mounted,            \* the AutoTrading component is mounted
    flow,               \* one trade flow followed step by step
    pmVersion,          \* which of the PortfolioManager contracts is deployed
    approvedTokens,     \* PortfolioManager.approvedTokens
    approvedTokenList,  \* PortfolioManager.approvedTokenList (first contract)
    userPortfolios,     \* PortfolioManager.userPortfolios
    held,               \* per token, balanceOf(PortfolioManager)
    txn,                \* the last transaction to PortfolioManager and its result
    panel,              \* the AutoTrading component, render by render
    checker             \* the token HoneypotChecker is asked about, and the checker's answer

chainVars == <<snap, whitelistedTokens, lastCall, sel, poolQuotes>>

clockVars == <<now, ticks>>

interfaceVars == <<revision, degenMode, autoTrading, lastTradeTimes, trade, lastOutcome>>

autoVars == <<cycles, autoTradingInterval, settings, loading, updateSettingsCall,
              lastSuccessAt, lastSubmit, mounted>>

flowVars == <<flow>>

portfolioVars == <<pmVersion, approvedTokens, approvedTokenList, userPortfolios, held, txn>>

sideVars == <<panel, checker>>

vars == <<snap, whitelistedTokens, lastCall, sel, poolQuotes, now, ticks, revision, degenMode,
          autoTrading, lastTradeTimes, trade, lastOutcome, cycles, autoTradingInterval, settings,
          loading, updateSettingsCall, lastSuccessAt, lastSubmit, mounted, flow,
          pmVersion, approvedTokens, approvedTokenList, userPortfolios, held, txn,
          panel, checker>>

(***************************************************************************)
(* GoDegen.sol                                                             *)
(***************************************************************************)
\* the minimum rounded up instead of truncated
MinAmountOut_RoundedUp(quotedAmount) ==
    (quotedAmount * (10000 - MAX_SLIPPAGE) + 9999) \div 10000

\* (quotedAmount * (10000 - MAX_SLIPPAGE)) / 10000
MinAmountOut(quotedAmount) == (quotedAmount * (10000 - MAX_SLIPPAGE)) \div 10000

NoBest == [liquidity |-> 0, fee |-> 0, found |-> FALSE]

RECURSIVE LiquidityScan(_, _, _, _)
\* for (i ...) { if (currentPool != 0) { if (liquidity > bestLiquidity) {...} } }
LiquidityScan(s, order, i, best) ==
    IF i > Len(order) THEN best
    ELSE LET f == order[i] IN
         IF s[f].pool /\ s[f].liq > best.liquidity
         THEN LiquidityScan(s, order, i + 1,
                           [liquidity |-> s[f].liq, fee |-> f, found |-> TRUE])
         ELSE LiquidityScan(s, order, i + 1, best)

RECURSIVE FirstExisting(_, _, _)
\* the second loop of findBestPool: the first tier with a deployed pool
FirstExisting(s, order, i) ==
    IF i > Len(order) THEN NoBest
    ELSE IF s[order[i]].pool
         THEN [liquidity |-> 0, fee |-> order[i], found |-> TRUE]
         ELSE FirstExisting(s, order, i + 1)

\* findBestPool of the first contract: require(pool != address(0))
findBestPool_v1(s) ==
    LET best == LiquidityScan(s, SUPPORTED_FEES, 1, NoBest) IN
    IF best.found THEN [ok |-> TRUE, fee |-> best.fee, reason |-> ""]
    ELSE [ok |-> FALSE, fee |-> 0, reason |-> "No pool found"]

\* pool location that falls back to the first preferred tier when the
\* factory knows no pool
findBestPool_DefaultTier(s) ==
    LET first == LiquidityScan(s, preferredFees, 1, NoBest)
        best == IF first.found THEN first ELSE FirstExisting(s, preferredFees, 1)
    IN [ok |-> TRUE, fee |-> IF best.found THEN best.fee ELSE preferredFees[1],
        reason |-> ""]

\* findBestPool of the later contract
findBestPool(s) ==
    LET first == LiquidityScan(s, preferredFees, 1, NoBest)
        best == IF first.found THEN first ELSE FirstExisting(s, preferredFees, 1)
    IN IF best.found THEN [ok |-> TRUE, fee |-> best.fee, reason |-> ""]
       ELSE [ok |-> FALSE, fee |-> 0, reason |-> "No pool found for token pair"]

\* whitelistToken: onlyOwner
whitelistToken(wl, sender, token, status) ==
    IF sender # "owner"
    THEN [status |-> "revert", reason |-> "Not owner", whitelistedTokens |-> wl]
    ELSE [status |-> "ok", reason |-> "", whitelistedTokens |-> [wl EXCEPT ![token] = status]]

\* validateTradeParams without its first require
validateTradeParams_AmountOnly(wl, amountIn) ==
    IF ~(amountIn >= MIN_TRADE_AMOUNT) THEN "Amount too low (min 0.1 USDC)"
    ELSE ""

\* validateTradeParams: "" when both requires pass
validateTradeParams(wl, amountIn) ==
    IF ~(wl["USDC"] /\ wl["CBBTC"]) THEN "Tokens not whitelisted"
    ELSE IF ~(amountIn >= MIN_TRADE_AMOUNT) THEN "Amount too low (min 0.1 USDC)"
    ELSE ""

\* getQuoteFromPool; q is what the quoter returns when it returns a non-zero amount
getQuoteFromPool(s, fee, q) ==
    IF ~s[fee].pool THEN [ok |-> FALSE, quotedAmount |-> 0, reason |-> "Pool does not exist"]
    ELSE IF ~(s[fee].liq > 0)
    THEN [ok |-> FALSE, quotedAmount |-> 0, reason |-> "Pool has no liquidity"]
    ELSE IF s[fee].quote = "revert"
    THEN [ok |-> FALSE, quotedAmount |-> 0,
          reason |-> "Pool may not be initialized - try a different fee tier"]
    ELSE LET amountOut == IF s[fee].quote = "zero" THEN 0 ELSE q IN
         IF ~(amountOut > 0)
         THEN [ok |-> FALSE, quotedAmount |-> 0, reason |-> "Quote returned zero amount"]
         ELSE [ok |-> TRUE, quotedAmount |-> amountOut, reason |-> ""]

Reverted(fn, reason) ==
    [fn |-> fn, status |-> "revert", reason |-> reason, fee |-> 0, amountIn |-> 0,
     quotedAmount |-> 0, minAmountOut |-> 0, amountOut |-> 0]

Executed(fn, fee, amountIn, quotedAmount, minAmountOut, amountOut) ==
    [fn |-> fn, status |-> "ok", reason |-> "", fee |-> fee, amountIn |-> amountIn,
     quotedAmount |-> quotedAmount, minAmountOut |-> minAmountOut,
     amountOut |-> amountOut]

\* the later executeManualTrade.  transferOk: permit2.transferFrom succeeds;
\* routerOut: what swapRouter.exactInputSingle returns, -1 when it reverts
executeManualTrade(fn, s, wl, amountIn, q, transferOk, routerOut) ==
    LET invalid == validateTradeParams(wl, amountIn)
        best == findBestPool(s)
        quote == getQuoteFromPool(s, best.fee, q)
        minAmountOut == MinAmountOut(quote.quotedAmount)
    IN IF invalid # "" THEN Reverted(fn, invalid)
       ELSE IF ~best.ok THEN Reverted(fn, best.reason)
       ELSE IF ~quote.ok THEN Reverted(fn, quote.reason)
       ELSE IF ~transferOk
       THEN Reverted(fn, "Transfer failed - check balance and allowance")
       ELSE IF routerOut < 0 THEN Reverted(fn, "swap reverted")
       ELSE IF ~(routerOut >= minAmountOut) THEN Reverted(fn, "Insufficient output amount")
       ELSE Executed(fn, best.fee, amountIn, quote.quotedAmount, minAmountOut, routerOut)

\* executeTrade of the first contract: the quote is not checked, and what
\* the router returns is not compared with minAmountOut
executeTrade_v1(sender, s, wl, amountIn, q, transferOk, routerOut) ==
    LET fn == "executeTrade_v1"
        best == findBestPool_v1(s)
        kind == IF best.ok THEN s[best.fee].quote ELSE "revert"
        quotedAmount == IF kind = "ok" THEN q ELSE 0
        minAmountOut == MinAmountOut(quotedAmount)
    IN IF sender # "aiOracle" THEN Reverted(fn, "Not AI Oracle")
       ELSE IF ~(wl["USDC"] /\ wl["CBBTC"]) THEN Reverted(fn, "Tokens not whitelisted")
       ELSE IF ~(amountIn >= MIN_TRADE_AMOUNT) THEN Reverted(fn, "Amount too low")
       ELSE IF ~best.ok THEN Reverted(fn, best.reason)
       ELSE IF kind = "revert" THEN Reverted(fn, "quoter reverted")
       ELSE IF ~transferOk THEN Reverted(fn, "transferFrom reverted")
       ELSE IF routerOut < 0 THEN Reverted(fn, "swap reverted")
       ELSE Executed(fn, best.fee, amountIn, quotedAmount, minAmountOut, routerOut)

\* executeManualTrade of the first contract: it asks the quoter itself, and
\* what the success block of its try throws is not caught
executeManualTrade_v1(s, wl, amountIn, q, transferOk, routerOut) ==
    LET fn == "executeManualTrade_v1"
        best == findBestPool_v1(s)
        kind == IF best.ok THEN s[best.fee].quote ELSE "revert"
        quotedAmount == IF kind = "ok" THEN q ELSE 0
        minAmountOut == MinAmountOut(quotedAmount)
    IN IF ~(wl["USDC"] /\ wl["CBBTC"]) THEN Reverted(fn, "Tokens not whitelisted")
       ELSE IF ~(amountIn >= MIN_TRADE_AMOUNT)
       THEN Reverted(fn, "Amount too low (min 0.1 USDC)")
       ELSE IF ~best.ok THEN Reverted(fn, best.reason)
       ELSE IF kind = "revert"
       THEN Reverted(fn, "Failed to get quote - try increasing amount")
       ELSE IF ~(quotedAmount > 0) THEN Reverted(fn, "Quote returned zero amount")
       ELSE IF ~transferOk THEN Reverted(fn, "transferFrom reverted")
       ELSE IF routerOut < 0 THEN Reverted(fn, "swap reverted")
       ELSE IF ~(routerOut >= minAmountOut) THEN Reverted(fn, "Insufficient output amount")
       ELSE Executed(fn, best.fee, amountIn, quotedAmount, minAmountOut, routerOut)

\* keccak256(abi.encodePacked(_tokenIn, _tokenOut, _amountIn, fee))
QuoteKey(amountIn, fee) == <<"USDC", "CBBTC", amountIn, fee>>

\* poolQuotes[quoteKey] = PoolQuote({timestamp, quotedAmount, fee})
cacheQuote(cache, quoteKey, timestamp, quotedAmount, fee) ==
    {e \in cache : e.quoteKey # quoteKey}
        \cup {[quoteKey |-> quoteKey, timestamp |-> timestamp,
                quotedAmount |-> quotedAmount, fee |-> fee]}

\* the entry is left where it is
deleteQuote_Kept(cache, quoteKey) == cache

\* delete poolQuotes[quoteKey]
deleteQuote(cache, quoteKey) == {e \in cache : e.quoteKey # quoteKey}

\* poolQuotes once an executeManualTrade with the result call is over: a
\* revert, wherever it was thrown, restores the storage the transaction
\* found; a call that returns wrote its entry after the quote and deleted
\* it after the swap
poolQuotesAfter(cache, call, timestamp) ==
    LET quoteKey == QuoteKey(call.amountIn, call.fee)
        cached == cacheQuote(cache, quoteKey, timestamp, call.quotedAmount, call.fee)
    IN IF call.status = "revert" THEN cache ELSE deleteQuote(cached, quoteKey)

\* executeTrade of the later contract: onlyAIOracle, then executeManualTrade
executeTrade(sender, s, wl, amountIn, q, transferOk, routerOut) ==
    IF sender # "aiOracle" THEN Reverted("executeTrade", "Not AI Oracle")
    ELSE executeManualTrade("executeTrade", s, wl, amountIn, q, transferOk, routerOut)

(***************************************************************************)
(* The quote path of the components                                        *)
(***************************************************************************)
\* new Uint8Array([fee & 0xff, (fee >> 8) & 0xff, (fee >> 16) & 0xff])
EncodePathFee(fee) == <<fee % 256, (fee \div 256) % 256, (fee \div 65536) % 256>>

\* the uint24 the quoter reads from the three fee bytes of a path (big-endian)
DecodePathFee(b) == b[1] * 65536 + b[2] * 256 + b[3]

\* ethers.getBytes(TOKENS.USDC), ethers.getBytes(TOKENS.CBBTC): the 20 bytes
\* of the address
getBytes(token) ==
    IF token = "USDC"
    THEN <<131, 53, 137, 252, 214, 237, 182, 224,
          143, 76, 124, 50, 212, 247, 27, 84, 189, 160, 41, 19>>
    ELSE <<203, 183, 192, 0, 10, 184, 139, 71, 59, 31, 90, 253, 158, 248, 8, 68, 14, 237, 51, 191>>

\* ethers.concat([getBytes(tokenIn), fee bytes, getBytes(tokenOut)])
EncodePath(tokenIn, fee, tokenOut) ==
    getBytes(tokenIn) \o EncodePathFee(fee) \o getBytes(tokenOut)

\* the fee the quoter reads from a path: bytes 21 to 23, after the first address
PathFee(path) == DecodePathFee(SubSeq(path, 21, 23))

\* quoteExactInputSingle.staticCall for the tier: what the pool answers
directQuote(s, fee) == IF fee \in Fees /\ s[fee].pool THEN s[fee].quote ELSE "revert"

\* quoteExactInput.staticCall(encodedPath, amountIn): the quoter quotes the
\* pool of the fee it decodes from the path
pathQuote(s, fee) == directQuote(s, DecodePathFee(EncodePathFee(fee)))

\* known: the pair has an entry in POOLS, so the factory was not asked
NoSel ==
    [origin |-> "none", outcome |-> "none", fee |-> 0, via |-> "none",
     direct |-> {}, path |-> {}, amountIn |-> 0, known |-> FALSE]

LoopStart ==
    [foundPool |-> FALSE, workingPool |-> FALSE, bestFee |-> 0, bestLiquidity |-> 0,
     direct |-> {}]

RECURSIVE AutoPoolLoop(_, _, _)
\* AutoTrading.checkAndExecuteTrade: for (const fee of feeTiers) { ... }
AutoPoolLoop(s, i, st) ==
    IF i > Len(feeTiers) THEN st
    ELSE LET fee == feeTiers[i]
             liquidity == s[fee].liq
             tried == [st EXCEPT !.direct = @ \cup {fee}]
         IN IF s[fee].pool /\ liquidity > 0
            THEN CASE directQuote(s, fee) = "ok" ->
                        \* testQuote > 0: break
                        [tried EXCEPT !.bestLiquidity = liquidity, !.bestFee = fee,
                                      !.foundPool = TRUE, !.workingPool = TRUE]
                   [] directQuote(s, fee) = "zero" ->
                        \* neither branch taken: next tier
                        AutoPoolLoop(s, i + 1, tried)
                   [] OTHER ->
                        \* catch (quoteError): keep as a backup, continue
                        AutoPoolLoop(s, i + 1,
                            IF liquidity > st.bestLiquidity /\ ~st.workingPool
                            THEN [tried EXCEPT !.bestLiquidity = liquidity,
                                               !.bestFee = fee, !.foundPool = TRUE]
                            ELSE tried)
            ELSE AutoPoolLoop(s, i + 1, st)

\* the quote stage that follows a fee choice: the single pool quote, then
\* the path-based quote.  d is what the single pool quote answers
QuoteStage(origin, s, fee, d, direct, amountIn) ==
    IF d = "ok"
    THEN [NoSel EXCEPT !.origin = origin, !.outcome = "ok", !.fee = fee,
                       !.via = "direct", !.direct = direct \cup {fee},
                       !.amountIn = amountIn]
    ELSE IF pathQuote(s, fee) = "ok"
    THEN [NoSel EXCEPT !.origin = origin, !.outcome = "ok", !.fee = fee,
                       !.via = "path", !.direct = direct \cup {fee},
                       !.path = {fee}, !.amountIn = amountIn]
    ELSE [NoSel EXCEPT !.origin = origin, !.outcome = "QuoteFailed", !.fee = fee,
                       !.direct = direct \cup {fee}, !.path = {fee},
                       !.amountIn = amountIn]

\* the fee tier the loop of checkAndExecuteTrade ends with
AutoBestFee(s) == AutoPoolLoop(s, 1, LoopStart).bestFee

\* AutoTrading.checkAndExecuteTrade from the fee tier loop to the quote.
\* d is what the single pool quote of the quote stage answers
AutoQuote(s, d, amountIn) ==
    LET st == AutoPoolLoop(s, 1, LoopStart) IN
    IF ~st.foundPool
    THEN [NoSel EXCEPT !.origin = "AutoTrading", !.outcome = "NoPool",
                       !.direct = st.direct, !.amountIn = amountIn]
    ELSE IF ~st.workingPool
    THEN [NoSel EXCEPT !.origin = "AutoTrading", !.outcome = "NoInitializedPool",
                       !.fee = st.bestFee, !.direct = st.direct, !.amountIn = amountIn]
    ELSE QuoteStage("AutoTrading", s, st.bestFee, d, st.direct, amountIn)

RECURSIVE FirstPool(_, _)
\* checkPoolLiquidity: the first fee tier whose pool address is not zero
FirstPool(s, i) ==
    IF i > Len(feeTiers) THEN 0
    ELSE IF s[feeTiers[i]].pool THEN feeTiers[i] ELSE FirstPool(s, i + 1)

\* the minimum suggested amount of checkPoolLiquidity, in base units
minAmount(fee) ==
    IF fee = 100 THEN 1000000
    ELSE IF fee = 500 THEN 500000
    ELSE IF fee = 3000 THEN 300000
    ELSE 100000

\* TradingInterface.checkPoolLiquidity.  known: the pair has an entry in
\* POOLS (CBBTC_USDC, fee 500)
checkPoolLiquidity(s, known, amountIn) ==
    LET fee == IF known THEN 500 ELSE FirstPool(s, 1)
        failed(why) == [NoSel EXCEPT !.origin = "TradingInterface", !.outcome = why,
                                     !.fee = fee, !.amountIn = amountIn,
                                     !.known = known]
    IN IF fee = 0 THEN failed("NoPool")
       ELSE IF amountIn < minAmount(fee) THEN failed("BelowSuggestedMinimum")
       ELSE IF s[fee].liq = 0 THEN failed("NoLiquidity")
       ELSE IF amountIn > (s[fee].liq * 10) \div 100 THEN failed("AmountTooLarge")
       ELSE [QuoteStage("TradingInterface", s, fee, directQuote(s, fee), {}, amountIn)
                EXCEPT !.known = known]

(***************************************************************************)
(* TradingInterface.tsx: executeTrade.  The file holds three revisions of  *)
(* the component; revision says which one is mounted.                      *)
(***************************************************************************)
\* 5 * 60 * 1000
TRADE_COOLDOWN == 300000

\* the clock takes at most MaxTicks steps
MaxTicks == 3

\* the clock's steps in ms: the first takes it to one second before a
\* cooldown that began at the start is over, the later ones are half seconds
Step(i) == IF i = 0 THEN TRADE_COOLDOWN - 1000 ELSE 500

\* tokens listed in the interface: CBBTC has an entry in POOLS, CUSTOM is a
\* token the user added
TradeTokens == {"CBBTC", "CUSTOM"}

\* how prediction[token] compares with settings[token]: the conditions it
\* fails, confidence < minConfidence, riskScore > maxRiskScore, isHoneypot
Verdicts == SUBSET {"confidence", "risk", "honeypot"}

\* settings[token].tradeAmount in USDC base units
TradeAmounts == {0, MIN_TRADE_AMOUNT - 1, 20 * MIN_TRADE_AMOUNT}

\* pc: where the call is.  verdict, degenMode, lastTradeTime, amountIn: what
\* the handler's closure captured and the rest of the call still reads.
\* quoted: checkPoolLiquidity returned a quote.  warnings: the DEGEN MODE
\* warnings the call logged.  outcome, remainingTime: how the call ended.
NoTrade ==
    [pc |-> "idle", outcome |-> "none", verdict |-> {}, degenMode |-> FALSE,
     lastTradeTime |-> 0, amountIn |-> 0, quoted |-> FALSE, warnings |-> <<>>,
     remainingTime |-> 0]

NoOutcome == [token |-> "none", outcome |-> "none", remainingTime |-> 0]

\* the cooldown test with <= in place of <
CooldownActive_Inclusive(lastTradeTime, at) == at - lastTradeTime <= TRADE_COOLDOWN

\* Date.now() - lastTradeTime < TRADE_COOLDOWN
CooldownActive(lastTradeTime, at) == at - lastTradeTime < TRADE_COOLDOWN

\* Math.ceil((TRADE_COOLDOWN - (Date.now() - lastTradeTime)) / 1000), taken
\* where the difference is positive
remainingTime(lastTradeTime, at) ==
    ((TRADE_COOLDOWN - (at - lastTradeTime)) + 999) \div 1000

\* the flow returns or throws
Ended(f, outcome) == [NoTrade EXCEPT !.outcome = outcome]

\* the conditions are met: on to the balance, the allowance and the send
Proceed(f) == [f EXCEPT !.pc = "submit", !.lastTradeTime = 0]

\* the DEGEN MODE branch with its honeypot warning left out
DegenWarnings_NoHoneypot(verdict) ==
    (IF "confidence" \in verdict THEN <<"Ignoring low confidence">> ELSE <<>>)
    \o (IF "risk" \in verdict THEN <<"Ignoring high risk score">> ELSE <<>>)

\* the DEGEN MODE branch: a warning for each condition the prediction fails
DegenWarnings(verdict) ==
    (IF "confidence" \in verdict THEN <<"Ignoring low confidence">> ELSE <<>>)
    \o (IF "risk" \in verdict THEN <<"Ignoring high risk score">> ELSE <<>>)
    \o (IF "honeypot" \in verdict THEN <<"Ignoring honeypot warning">> ELSE <<>>)

\* the trade conditions: only warned about in DEGEN MODE, else confidence,
\* risk score, honeypot and cooldown in this order.  f holds what the handler's closure
\* captured: prediction, settings, degenMode and lastTradeTimes[token]
CheckConditions(f, at) ==
    IF f.degenMode THEN Proceed([f EXCEPT !.warnings = DegenWarnings(f.verdict)])
    ELSE IF "confidence" \in f.verdict THEN Ended(f, "ConfidenceTooLow")
    ELSE IF "risk" \in f.verdict THEN Ended(f, "RiskTooHigh")
    ELSE IF "honeypot" \in f.verdict THEN Ended(f, "Honeypot")
    ELSE IF CooldownActive(f.lastTradeTime, at)
         THEN [Ended(f, "CooldownActive") EXCEPT
                        !.remainingTime = remainingTime(f.lastTradeTime, at)]
         ELSE Proceed(f)

\* the execute button of a token is disabled
ButtonDisabled(t) ==
    IF revision = 1 THEN trade[t].pc # "idle" \/ autoTrading
    ELSE IF revision = 2 THEN \E u \in TradeTokens : trade[u].pc # "idle"
    ELSE trade[t].pc # "idle"

\* executeTrade up to its first await
\* Without a prediction the first and third revision return without a log
\* entry.  Only the second revision reads the amount again after this.
ExecuteTradeStart(f, hasPrediction, at) ==
    IF ~hasPrediction
    THEN Ended(f, IF revision = 2 THEN "NoPrediction" ELSE "Returned")
    ELSE IF revision = 1 THEN [f EXCEPT !.pc = "prechecks", !.amountIn = 0]
    ELSE IF f.amountIn <= 0 THEN Ended(f, "InvalidAmount")
    ELSE IF revision = 2 THEN [f EXCEPT !.pc = "prechecks"]
    ELSE CheckConditions([f EXCEPT !.amountIn = 0], at)

\* what checkPoolLiquidity can come to for a pair and an amount, over the
\* states of the pools
LiquidityOutcomes ==
    [known \in BOOLEAN, amountIn \in TradeAmounts |->
        {checkPoolLiquidity(s, known, amountIn).outcome : s \in Snapshots}]

\* the chain reads before the trade conditions.  First revision: portfolio
\* active (first), tokens approved (second).  Second revision: whitelist
\* (first), checkPoolLiquidity (liquidity).
ExecuteTradePrechecks(f, first, second, liquidity, at) ==
    IF revision = 1
    THEN IF ~first THEN Ended(f, "NoActivePortfolio")
         ELSE IF ~second THEN Ended(f, "TokensNotApproved")
         ELSE CheckConditions(f, at)
    ELSE IF ~first THEN Ended(f, "NotWhitelisted")
         ELSE IF liquidity # "ok" THEN Ended(f, liquidity)
              ELSE CheckConditions([f EXCEPT !.quoted = TRUE], at)

\* what can throw between the trade conditions and the transaction being sent
SubmitFailures ==
    IF revision = 1 THEN {"SubmissionRejected"}
    ELSE IF revision = 2
         THEN {"InsufficientBalance", "ApprovalFailed", "SimulationFailed",
               "SubmissionRejected"}
         ELSE {"ApprovalFailed", "SubmissionRejected"}

\* balance, allowance, minimum amount, simulation, gas estimate and the send
ExecuteTradeSubmit(f, failure) ==
    IF failure = "InsufficientBalance" \/ failure = "ApprovalFailed" THEN Ended(f, failure)
    ELSE IF revision = 2 /\ f.amountIn < MIN_TRADE_AMOUNT THEN Ended(f, "AmountTooSmall")
    ELSE IF failure # "none" THEN Ended(f, failure)
    ELSE [NoTrade EXCEPT !.pc = "waiting", !.quoted = f.quoted]

\* tx.wait() resolves with a receipt of status 1, throws on a reverted
\* transaction, or (second revision) yields no receipt
Receipts == {"success", "reverted", "none"}

\* setLastTradeTimes whatever the receipt
AfterWait_AnyReceipt(prev, t, receipt, at) == [prev EXCEPT ![t] = at]

\* the lines after await tx.wait(): setLastTradeTimes on success only
AfterWait(prev, t, receipt, at) ==
    IF receipt = "success" THEN [prev EXCEPT ![t] = at] ELSE prev

InterfaceInit ==
    /\ degenMode = FALSE
    /\ autoTrading = FALSE
    /\ lastTradeTimes = [t \in TradeTokens |-> 0]
    /\ trade = [t \in TradeTokens |-> NoTrade]
    /\ lastOutcome = NoOutcome

ClockInit == now = TRADE_COOLDOWN /\ ticks = 0

Tick ==
    /\ ticks < MaxTicks
    /\ now' = now + Step(ticks)
    /\ ticks' = ticks + 1
    /\ UNCHANGED <<chainVars, interfaceVars, autoVars, flowVars, portfolioVars, sideVars>>

\* the DEGEN MODE checkbox (second and third revision)
SetDegenMode(checked) ==
    /\ revision # 1
    /\ degenMode' = checked
    /\ UNCHANGED <<revision, autoTrading, lastTradeTimes, trade, lastOutcome>>
    /\ UNCHANGED <<chainVars, clockVars, autoVars, flowVars, portfolioVars, sideVars>>

\* startAutoTrading of the first revision, run by a render whose
\* autoTrading is a: the tokens for which its loop fetches a prediction and
\* calls executeTrade.  while (autoTrading) tests the value of that render
\* each time round: with a false the body is never entered
startAutoTradingLoop(a, enabled) == IF a THEN enabled ELSE {}

\* toggleAutoTrading of the first revision, run by a render whose
\* autoTrading is a: setAutoTrading(!a), and startAutoTrading() when a is false
toggleAutoTrading(a, enabled) ==
    [autoTrading |-> ~a,
     pass |-> IF ~a THEN startAutoTradingLoop(a, enabled) ELSE {}]

\* the Start Trading / Stop Trading button.  The loop the handler starts has
\* run no pass when the handler returns, and runs none later
ToggleAutoTrading ==
    /\ revision = 1
    /\ \A t \in TradeTokens : trade[t].pc = "idle"
    /\ autoTrading' = toggleAutoTrading(autoTrading, TradeTokens).autoTrading
    /\ UNCHANGED <<revision, degenMode, lastTradeTimes, trade, lastOutcome>>
    /\ UNCHANGED <<chainVars, clockVars, autoVars, flowVars, portfolioVars, sideVars>>

\* the call for token t is now at r: a call that ended leaves its entry in
\* tradingLogs
Settle(t, r) ==
    /\ trade' = [trade EXCEPT ![t] = IF r.pc = "idle" THEN NoTrade ELSE r]
    /\ lastOutcome' =
          IF r.pc = "idle" /\ r.outcome # "Returned"
          THEN [token |-> t, outcome |-> r.outcome, remainingTime |-> r.remainingTime]
          ELSE lastOutcome

ClickExecuteTrade(t) ==
    /\ ~ButtonDisabled(t)
    /\ \E hasPrediction \in BOOLEAN, verdict \in Verdicts, amountIn \in TradeAmounts :
        Settle(t, ExecuteTradeStart([NoTrade EXCEPT !.verdict = verdict,
                                                   !.degenMode = degenMode,
                                                   !.lastTradeTime = lastTradeTimes[t],
                                                   !.amountIn = amountIn],
                                    hasPrediction, now))
    /\ UNCHANGED <<revision, degenMode, autoTrading, lastTradeTimes>>
    /\ UNCHANGED <<chainVars, clockVars, autoVars, flowVars, portfolioVars, sideVars>>

PrechecksDone(t) ==
    /\ trade[t].pc = "prechecks"
    /\ \E first \in BOOLEAN, second \in BOOLEAN,
          liquidity \in LiquidityOutcomes[t = "CBBTC", trade[t].amountIn] :
        Settle(t, ExecuteTradePrechecks(trade[t], first, second, liquidity, now))
    /\ UNCHANGED <<revision, degenMode, autoTrading, lastTradeTimes>>
    /\ UNCHANGED <<chainVars, clockVars, autoVars, flowVars, portfolioVars, sideVars>>

SendTrade(t) ==
    /\ trade[t].pc = "submit"
    /\ \E failure \in SubmitFailures \cup {"none"} :
        Settle(t, ExecuteTradeSubmit(trade[t], failure))
    /\ UNCHANGED <<revision, degenMode, autoTrading, lastTradeTimes>>
    /\ UNCHANGED <<chainVars, clockVars, autoVars, flowVars, portfolioVars, sideVars>>

ReceiptArrives(t) ==
    /\ trade[t].pc = "waiting"
    /\ \E receipt \in Receipts :
        /\ receipt = "none" => revision = 2
        /\ lastTradeTimes' = AfterWait(lastTradeTimes, t, receipt, now)
        /\ Settle(t, Ended(trade[t], IF receipt = "success" THEN "Success"
                                     ELSE IF receipt = "reverted" THEN "TransactionFailed"
                                     ELSE "NoReceipt"))
    /\ UNCHANGED <<revision, degenMode, autoTrading>>
    /\ UNCHANGED <<chainVars, clockVars, autoVars, flowVars, portfolioVars, sideVars>>

(***************************************************************************)
(* AutoTrading.tsx                                                         *)
(***************************************************************************)
\* 5 * 60 * 1000
TRADE_CHECK_INTERVAL == 300000

\* at most MaxCycles calls of checkAndExecuteTrade run at a time
MaxCycles == 2

\* stages of checkAndExecuteTrade: the reads and approvals before the pool
\* search, the pool search and quote, the send, the wait for the receipt
Stages == {"checks", "quote", "submit", "waiting"}

NoCycles == [st \in Stages |-> 0]

Running(c) == c["checks"] + c["quote"] + c["submit"] + c["waiting"]

\* a call of checkAndExecuteTrade begins
Begin(c) == [c EXCEPT !["checks"] = @ + 1]

\* a running call moves on, or ends when to = "done"
Move(c, from, to) ==
    IF to = "done" THEN [c EXCEPT ![from] = @ - 1]
    ELSE [c EXCEPT ![from] = @ - 1, ![to] = @ + 1]

\* startAutoTrading: clearInterval, checkAndExecuteTrade(), setInterval
startAutoTrading(c, at) ==
    [cycles |-> Begin(c), autoTradingInterval |-> at + TRADE_CHECK_INTERVAL]

\* stopAutoTrading: clearInterval; running calls are left alone
stopAutoTrading(c) == [cycles |-> c, autoTradingInterval |-> 0]

\* the first part of checkAndExecuteTrade: prediction criteria and balance
\* (return), approvals, whitelist, minimum amount (throw)
ChecksPass(verdict, balanceOk, approvalsOk, whitelisted, amountIn) ==
    /\ verdict = {}
    /\ balanceOk
    /\ approvalsOk
    /\ whitelisted
    /\ amountIn >= MIN_TRADE_AMOUNT

\* what the pool search and quote stage can come to, over the states of the
\* pools
AutoQuoteOutcomes ==
    {AutoQuote(s, directQuote(s, AutoBestFee(s)), amountIn).outcome :
        s \in Snapshots, amountIn \in FrontAmounts}

NoSubmit == [at |-> 0, lastSuccessAt |-> 0]

AutoInit ==
    /\ cycles = NoCycles
    /\ autoTradingInterval = 0
    /\ settings = [enabled |-> FALSE]
    /\ loading = TRUE
    /\ updateSettingsCall = "idle"
    /\ lastSuccessAt = 0
    /\ lastSubmit = NoSubmit
    /\ mounted = TRUE

\* loadSettings, run once on mount
LoadSettings ==
    /\ loading
    /\ Running(cycles) < MaxCycles
    /\ \E result \in {"enabled", "disabled", "error"} :
        /\ settings' = IF result = "error" THEN settings
                       ELSE [enabled |-> result = "enabled"]
        /\ cycles' = IF result = "enabled"
                     THEN startAutoTrading(cycles, now).cycles ELSE cycles
        /\ autoTradingInterval' =
              IF result = "enabled"
              THEN startAutoTrading(cycles, now).autoTradingInterval
              ELSE autoTradingInterval
    /\ loading' = FALSE
    /\ UNCHANGED <<updateSettingsCall, lastSuccessAt, lastSubmit>>
    /\ UNCHANGED mounted
    /\ UNCHANGED <<chainVars, clockVars, interfaceVars, flowVars, portfolioVars, sideVars>>

\* the Enable Auto-Trading checkbox
SetEnabled(checked) ==
    /\ mounted
    /\ ~loading
    /\ settings' = [settings EXCEPT !.enabled = checked]
    /\ UNCHANGED <<cycles, autoTradingInterval, loading, updateSettingsCall,
                   lastSuccessAt, lastSubmit>>
    /\ UNCHANGED mounted
    /\ UNCHANGED <<chainVars, clockVars, interfaceVars, flowVars, portfolioVars, sideVars>>

\* updateSettings up to await tx.wait(); the button is disabled while updating
ClickUpdateSettings ==
    /\ mounted
    /\ ~loading
    /\ updateSettingsCall = "idle"
    /\ updateSettingsCall' = IF settings.enabled THEN "enabling" ELSE "disabling"
    /\ UNCHANGED <<cycles, autoTradingInterval, settings, loading, lastSuccessAt,
                   lastSubmit>>
    /\ UNCHANGED mounted
    /\ UNCHANGED <<chainVars, clockVars, interfaceVars, flowVars, portfolioVars, sideVars>>

\* updateAutoTrading is confirmed, or the call threw
UpdateSettingsDone ==
    /\ updateSettingsCall \in {"enabling", "disabling"}
    /\ Running(cycles) < MaxCycles
    /\ \E confirmed \in BOOLEAN :
        /\ cycles' = IF confirmed /\ updateSettingsCall = "enabling"
                     THEN startAutoTrading(cycles, now).cycles ELSE cycles
        /\ autoTradingInterval' =
              IF ~confirmed THEN autoTradingInterval
              ELSE IF updateSettingsCall = "enabling"
                   THEN startAutoTrading(cycles, now).autoTradingInterval
                   ELSE stopAutoTrading(cycles).autoTradingInterval
    /\ updateSettingsCall' = "idle"
    /\ UNCHANGED <<settings, loading, lastSuccessAt, lastSubmit>>
    /\ UNCHANGED mounted
    /\ UNCHANGED <<chainVars, clockVars, interfaceVars, flowVars, portfolioVars, sideVars>>

\* testAutoTrade: quotes only, sends nothing; holds updating while it runs
ClickTestAutoTrade ==
    /\ mounted
    /\ ~loading
    /\ updateSettingsCall = "idle"
    /\ settings.enabled
    /\ updateSettingsCall' = "testing"
    /\ UNCHANGED <<cycles, autoTradingInterval, settings, loading, lastSuccessAt,
                   lastSubmit>>
    /\ UNCHANGED mounted
    /\ UNCHANGED <<chainVars, clockVars, interfaceVars, flowVars, portfolioVars, sideVars>>

TestAutoTradeDone ==
    /\ updateSettingsCall = "testing"
    /\ updateSettingsCall' = "idle"
    /\ UNCHANGED <<cycles, autoTradingInterval, settings, loading, lastSuccessAt,
                   lastSubmit>>
    /\ UNCHANGED mounted
    /\ UNCHANGED <<chainVars, clockVars, interfaceVars, flowVars, portfolioVars, sideVars>>

\* the cleanup of the mount effect: clearInterval; calls under way go on
Unmount ==
    /\ mounted
    /\ mounted' = FALSE
    /\ autoTradingInterval' = 0
    /\ UNCHANGED <<cycles, settings, loading, updateSettingsCall, lastSuccessAt,
                   lastSubmit>>
    /\ UNCHANGED <<chainVars, clockVars, interfaceVars, flowVars, portfolioVars, sideVars>>

\* the interval set by setInterval is due: checkAndExecuteTrade is called
\* whatever earlier calls are doing
IntervalFires ==
    /\ autoTradingInterval # 0
    /\ now >= autoTradingInterval
    /\ Running(cycles) < MaxCycles
    /\ cycles' = Begin(cycles)
    /\ autoTradingInterval' = autoTradingInterval + TRADE_CHECK_INTERVAL
    /\ UNCHANGED <<settings, loading, updateSettingsCall, lastSuccessAt, lastSubmit>>
    /\ UNCHANGED mounted
    /\ UNCHANGED <<chainVars, clockVars, interfaceVars, flowVars, portfolioVars, sideVars>>

CycleChecks ==
    /\ cycles["checks"] > 0
    /\ \E verdict \in Verdicts, balanceOk \in BOOLEAN, approvalsOk \in BOOLEAN,
          whitelisted \in BOOLEAN, amountIn \in FrontAmounts :
        cycles' = Move(cycles, "checks",
                       IF ChecksPass(verdict, balanceOk, approvalsOk, whitelisted, amountIn)
                       THEN "quote" ELSE "done")
    /\ UNCHANGED <<autoTradingInterval, settings, loading, updateSettingsCall,
                   lastSuccessAt, lastSubmit>>
    /\ UNCHANGED mounted
    /\ UNCHANGED <<chainVars, clockVars, interfaceVars, flowVars, portfolioVars, sideVars>>

\* the pool search and the quote stage
CycleQuote ==
    /\ cycles["quote"] > 0
    /\ \E outcome \in AutoQuoteOutcomes :
        cycles' = Move(cycles, "quote", IF outcome = "ok" THEN "submit" ELSE "done")
    /\ UNCHANGED <<autoTradingInterval, settings, loading, updateSettingsCall,
                   lastSuccessAt, lastSubmit>>
    /\ UNCHANGED mounted
    /\ UNCHANGED <<chainVars, clockVars, interfaceVars, flowVars, portfolioVars, sideVars>>

\* allowance, estimateGas and executeManualTrade: sent, or one of them threw
CycleSubmit ==
    /\ cycles["submit"] > 0
    /\ \E sent \in BOOLEAN :
        /\ cycles' = Move(cycles, "submit", IF sent THEN "waiting" ELSE "done")
        /\ lastSubmit' = IF sent THEN [at |-> now, lastSuccessAt |-> lastSuccessAt]
                         ELSE lastSubmit
    /\ UNCHANGED <<autoTradingInterval, settings, loading, updateSettingsCall,
                   lastSuccessAt>>
    /\ UNCHANGED mounted
    /\ UNCHANGED <<chainVars, clockVars, interfaceVars, flowVars, portfolioVars, sideVars>>

\* tx.wait() resolves or throws
CycleReceipt ==
    /\ cycles["waiting"] > 0
    /\ \E receipt \in {"success", "reverted"} :
        lastSuccessAt' = IF receipt = "success" THEN now ELSE lastSuccessAt
    /\ cycles' = Move(cycles, "waiting", "done")
    /\ UNCHANGED <<autoTradingInterval, settings, loading, updateSettingsCall,
                   lastSubmit>>
    /\ UNCHANGED mounted
    /\ UNCHANGED <<chainVars, clockVars, interfaceVars, flowVars, portfolioVars, sideVars>>

(***************************************************************************)
(* One trade flow followed step by step, from the click or the start of a  *)
(* cycle to its end: executeTrade of the second and third revision of      *)
(* TradingInterface and checkAndExecuteTrade of AutoTrading                *)
(***************************************************************************)
Components == {"TradingInterface2", "TradingInterface3", "AutoTrading", "BlockMonitor"}

\* the components that trade on a timer, on the balance of the portfolio
TimerComponents == {"AutoTrading", "BlockMonitor"}

\* the gasLimit BlockMonitor passes
FixedGasLimit == 1000000

\* what estimateGas may answer; 0 stands for a call that throws
GasEstimates == {0, 21000, 150001, 150005, 999999}

\* ethers.MaxUint256, as the largest amount of the model
MaxUint256 == 2147483647

\* comp: whose flow it is.  pc: the stage it is at.  events: the stages it
\* passed and the transactions it sent, in order.  observed: addLog or
\* setError was called.  walletOk: the wallet holds at least amountIn USDC.
\* allowance: the allowance of the GoDegen contract as the flow knows it.
\* pending: an approval was sent and is not yet mined.  receipt: what
\* tx.wait() came to.  executed: the success entry was logged.
\* gasEstimate: what the flow's estimateGas answered, 0 if it made none.
\* gasLimit: the gasLimit passed with executeManualTrade, 0 if none.
NoFlow ==
    [comp |-> "none", pc |-> "idle", events |-> <<>>, observed |-> FALSE,
     walletOk |-> FALSE, degenMode |-> FALSE, verdict |-> {}, lastTradeTime |-> 0,
     amountIn |-> 0, allowance |-> 0, pending |-> FALSE, receipt |-> "unset",
     outcome |-> "none", executed |-> FALSE, gasEstimate |-> 0, gasLimit |-> 0]

\* the order of the stages in the code of each flow
Script(comp) ==
    IF comp = "TradingInterface2"
    THEN <<"whitelist", "pool", "conditions", "balance", "allowance", "minimum",
           "simulate", "send", "wait">>
    ELSE IF comp = "TradingInterface3"
    THEN <<"allowance", "send", "wait">>
    ELSE IF comp = "BlockMonitor"
    THEN <<"prediction", "balance", "allowance", "whitelist", "minimum", "pool",
           "send", "wait">>
    ELSE <<"prediction", "balance", "allowancePermit2", "permit2Allowance",
           "whitelist", "minimum", "pool", "allowance", "send", "wait">>

\* the stage that follows a stage
After(comp, stage) ==
    LET sc == Script(comp)
        i == CHOOSE k \in DOMAIN sc : sc[k] = stage
    IN IF i = Len(sc) THEN "done" ELSE sc[i + 1]

\* the stage is passed; every stage is preceded or followed by an addLog
Passed(f, stage) ==
    [f EXCEPT !.pc = After(f.comp, stage), !.events = Append(@, stage),
              !.observed = TRUE]

\* an error is thrown inside the outer try: the catch calls addLog (and
\* setError in TradingInterface)
Thrown(f, message) == [f EXCEPT !.pc = "done", !.outcome = message, !.observed = TRUE]

\* the flow returns; logged: it called addLog or setError before
Returns(f, message, logged) ==
    [f EXCEPT !.pc = "done", !.outcome = message, !.observed = @ \/ logged]

\* what the message of an error of the provider or the wallet may contain
Mentions == {"none", "insufficient allowance", "insufficient balance",
             "execution reverted"}

\* the inner catch around the execution part: some messages are replaced,
\* the others are thrown on as they are.  The third revision has none;
\* BlockMonitor replaces every message.
Rethrown(comp, message, mentions) ==
    IF comp = "BlockMonitor"
    THEN IF mentions = "execution reverted"
         THEN "Quote execution reverted - please try a smaller amount or check pool status"
         ELSE "Failed to quote trade - please check pool liquidity and try again"
    ELSE IF comp = "TradingInterface3" \/ mentions = "none" THEN message
    ELSE IF mentions = "insufficient allowance"
    THEN IF comp = "AutoTrading"
         THEN "Insufficient USDC allowance - please approve spending"
         ELSE "USDC allowance is insufficient. Please approve USDC spending first."
    ELSE IF mentions = "insufficient balance"
    THEN IF comp = "AutoTrading" THEN "Insufficient USDC balance"
         ELSE "Insufficient USDC balance for this trade."
    ELSE IF comp = "AutoTrading"
         THEN "Trade execution reverted - check USDC balance and allowance"
         ELSE "Transaction reverted."

\* the first lines of the flow, up to its first await
StartFlow(f, comp, hasPrediction, at) ==
    LET g == [f EXCEPT !.comp = comp] IN
    IF comp \in TimerComponents
    THEN [g EXCEPT !.pc = "prediction", !.degenMode = FALSE, !.verdict = {},
                   !.lastTradeTime = 0]
    ELSE IF ~hasPrediction
    THEN IF comp = "TradingInterface2"
         THEN [g EXCEPT !.pc = "fetch", !.observed = TRUE]
         ELSE Returns(g, "none", FALSE)
    ELSE IF g.amountIn <= 0 THEN Returns(g, "Trade failed: Invalid trade amount", TRUE)
    ELSE IF comp = "TradingInterface2" THEN [g EXCEPT !.pc = "whitelist"]
    ELSE LET c == CheckConditions([NoTrade EXCEPT !.verdict = g.verdict,
                                                  !.degenMode = g.degenMode,
                                                  !.lastTradeTime = g.lastTradeTime],
                                  at)
         IN IF c.pc = "submit"
            THEN [g EXCEPT !.pc = "allowance", !.events = Append(@, "conditions"),
                           !.observed = TRUE]
            ELSE Returns(g, c.outcome, TRUE)

\* the second revision without a prediction: await fetchPrediction, which
\* catches its own errors, then prediction = predictions[tokenAddress].
\* predictions is the state of the render that called executeTrade, which
\* holds no prediction for the token whatever setPredictions was given, so
\* the throw that follows is always reached.  fetched: the oracle answered
FlowFetch(f, fetched) ==
    Returns([f EXCEPT !.events = IF fetched THEN Append(@, "fetchPrediction") ELSE @],
            "Failed to fetch prediction data", TRUE)

\* AutoTrading: getPrediction and the three comparisons
FlowPrediction(f, fetched, verdict) ==
    IF ~fetched THEN Thrown(f, "Error executing trade")
    ELSE IF "confidence" \in verdict
    THEN Returns(f, "Confidence too low - skipping trade", TRUE)
    ELSE IF "risk" \in verdict THEN Returns(f, "Risk too high - skipping trade", TRUE)
    ELSE IF "honeypot" \in verdict
    THEN Returns(f, "Potential honeypot detected - skipping trade", TRUE)
    ELSE Passed(f, "prediction")

\* whitelistedTokens of both tokens
FlowWhitelist(f, whitelisted) ==
    IF ~whitelisted THEN Thrown(f, "One or both tokens are not whitelisted for trading")
    ELSE Passed(f, "whitelist")

\* the pool search and the quote: checkPoolLiquidity, or the fee tier loop
\* and the quote stage of checkAndExecuteTrade
FlowPool(f, outcome) ==
    IF outcome = "ok" THEN Passed(f, "pool")
    ELSE IF f.comp = "BlockMonitor" THEN Thrown(f, Rethrown(f.comp, outcome, "none"))
    ELSE Thrown(f, outcome)

\* TradingInterface2: the trade conditions after the pool check
FlowConditions(f, at) ==
    LET c == CheckConditions([NoTrade EXCEPT !.verdict = f.verdict,
                                             !.degenMode = f.degenMode,
                                             !.lastTradeTime = f.lastTradeTime],
                             at)
    IN IF c.pc = "submit"
       THEN [Passed(f, "conditions") EXCEPT !.verdict = {}, !.degenMode = FALSE,
                                            !.lastTradeTime = 0]
       ELSE Returns(f, c.outcome, TRUE)

\* the balance the flow reads: TradingInterface2 reads the USDC balance of
\* the wallet, AutoTrading and BlockMonitor the balance PortfolioManager
\* keeps for the user
FlowBalance(f, portfolioOk) ==
    IF f.comp \in TimerComponents
    THEN IF ~portfolioOk THEN Returns(f, "Insufficient USDC balance for trade", TRUE)
         ELSE Passed(f, "balance")
    ELSE IF ~f.walletOk THEN Thrown(f, "Insufficient USDC balance")
         ELSE Passed(f, "balance")

\* the three allowances read: USDC for Permit2, Permit2 for the GoDegen
\* contract (AutoTrading), USDC for the GoDegen contract
AllowanceStages == {"allowancePermit2", "permit2Allowance", "allowance"}

\* an allowance is read and, when it is below the amount, approve is sent
FlowAllowance(f, stage, read, sent) ==
    LET g == IF stage = "allowance" THEN [f EXCEPT !.allowance = read] ELSE f IN
    IF ~(read < f.amountIn) THEN Passed(g, stage)
    ELSE IF ~sent THEN Thrown(g, "approve rejected")
    ELSE [g EXCEPT !.pending = TRUE, !.events = Append(@, "ApprovalSent"),
                   !.observed = TRUE]

\* the flow goes on whether or not the approval was confirmed
AfterApproval_NotAwaited(f, stage, confirmed) ==
    [Passed([f EXCEPT !.pending = FALSE], stage) EXCEPT
        !.allowance = IF stage = "allowance" /\ confirmed THEN MaxUint256 ELSE @]

\* await approveTx.wait(): confirmed, or it throws
AfterApproval(f, stage, confirmed) ==
    IF ~confirmed THEN Thrown([f EXCEPT !.pending = FALSE], "approval failed")
    ELSE [Passed([f EXCEPT !.pending = FALSE,
                           !.events = Append(@, "ApprovalConfirmed")], stage)
            EXCEPT !.allowance = IF stage = "allowance" THEN MaxUint256 ELSE @]

\* the minimum amount: MIN_AMOUNT of TradingInterface2, MIN_TRADE_AMOUNT
\* read from the contract in AutoTrading
FlowMinimum(f) ==
    IF f.amountIn < MIN_TRADE_AMOUNT
    THEN Thrown(f, IF f.comp \in TimerComponents THEN "Trade amount too low"
                   ELSE "Amount too small")
    ELSE Passed(f, "minimum")

\* TradingInterface2: provider.call of the encoded executeManualTrade
FlowSimulate(f, ok, mentions) ==
    IF ~ok THEN Thrown(f, Rethrown(f.comp, "Transaction would fail", mentions))
    ELSE Passed(f, "simulate")

\* the components that call estimateGas before they send the swap
Estimating == {"TradingInterface2", "AutoTrading"}

\* the gasLimit passed with executeManualTrade, 0 if none is passed:
\* Number((gasEstimate * BigInt(120)) / BigInt(100)) in the second revision
\* of TradingInterface, (gasEstimate * BigInt(12)) / BigInt(10) in
\* AutoTrading, 1000000 in BlockMonitor, none in the third revision
gasLimit(comp, gasEstimate) ==
    IF comp = "TradingInterface2" THEN (gasEstimate * 120) \div 100
    ELSE IF comp = "AutoTrading" THEN (gasEstimate * 12) \div 10
    ELSE IF comp = "BlockMonitor" THEN FixedGasLimit
    ELSE 0

\* estimateGas (second revision and AutoTrading) and executeManualTrade
FlowSend(f, gasEstimate, sent, mentions) ==
    LET g == IF f.comp \in Estimating THEN [f EXCEPT !.gasEstimate = gasEstimate]
             ELSE f
    IN IF f.comp \in Estimating /\ gasEstimate = 0
       THEN Thrown(f, Rethrown(f.comp, "estimateGas failed", mentions))
       ELSE IF ~sent THEN Thrown(g, Rethrown(f.comp, "transaction rejected", mentions))
       ELSE [g EXCEPT !.pc = "wait", !.events = Append(@, "SwapSent"),
                      !.observed = TRUE, !.gasLimit = gasLimit(f.comp, gasEstimate)]

\* what tx.wait() can come to in a flow: only the second revision of
\* TradingInterface provides for a missing receipt
FlowReceipts(comp) ==
    IF comp = "TradingInterface2" THEN Receipts ELSE Receipts \ {"none"}

\* a missing receipt taken for a confirmation
AfterReceipt_NoneIsSuccess(f, receipt, mentions) ==
    LET g == [f EXCEPT !.receipt = receipt] IN
    IF receipt = "reverted"
    THEN Thrown(g, Rethrown(f.comp, "transaction failed", mentions))
    ELSE [Passed(g, "wait") EXCEPT !.outcome = "Trade executed successfully",
                                   !.executed = TRUE]

\* a failed swap sent again
AfterReceipt_Resubmit(f, receipt, mentions) ==
    LET g == [f EXCEPT !.receipt = receipt] IN
    IF receipt = "none" THEN Thrown(g, "Failed to get transaction receipt")
    ELSE IF receipt = "reverted"
    THEN [g EXCEPT !.pc = "send", !.observed = TRUE]
    ELSE [Passed(g, "wait") EXCEPT !.outcome = "Trade executed successfully",
                                   !.executed = TRUE]

\* the lines after tx.wait(): a missing receipt and a reverted transaction
\* throw, a confirmed one is logged as a success (and sets lastTradeTimes)
AfterReceipt(f, receipt, mentions) ==
    LET g == [f EXCEPT !.receipt = receipt] IN
    IF receipt = "none" THEN Thrown(g, "Failed to get transaction receipt")
    ELSE IF receipt = "reverted"
    THEN Thrown(g, Rethrown(f.comp,
                            IF f.comp = "AutoTrading"
                            THEN "Transaction failed: transaction reverted"
                            ELSE "transaction reverted", mentions))
    ELSE [Passed(g, "wait") EXCEPT !.outcome = "Trade executed successfully",
                                   !.executed = TRUE]

FlowInit == flow = NoFlow

\* the click on Execute Manual Trade, or the start of a cycle
FlowBegins(comp) ==
    /\ flow = NoFlow
    /\ \E hasPrediction \in BOOLEAN, verdict \in Verdicts, degen \in BOOLEAN,
          traded \in BOOLEAN, walletOk \in BOOLEAN,
          amountIn \in (IF comp \in TimerComponents THEN FrontAmounts
                        ELSE TradeAmounts) :
        flow' = StartFlow([NoFlow EXCEPT !.verdict = verdict, !.degenMode = degen,
                                         !.lastTradeTime = IF traded THEN now ELSE 0,
                                         !.walletOk = walletOk, !.amountIn = amountIn],
                          comp, hasPrediction, now)
    /\ UNCHANGED <<chainVars, clockVars, interfaceVars, autoVars, portfolioVars, sideVars>>

FlowFetchStep ==
    /\ flow.pc = "fetch"
    /\ \E fetched \in BOOLEAN : flow' = FlowFetch(flow, fetched)
    /\ UNCHANGED <<chainVars, clockVars, interfaceVars, autoVars, portfolioVars, sideVars>>

FlowPredictionStep ==
    /\ flow.pc = "prediction"
    /\ \E fetched \in BOOLEAN, verdict \in Verdicts :
        flow' = FlowPrediction(flow, fetched, verdict)
    /\ UNCHANGED <<chainVars, clockVars, interfaceVars, autoVars, portfolioVars, sideVars>>

FlowWhitelistStep ==
    /\ flow.pc = "whitelist"
    /\ \E whitelisted \in BOOLEAN : flow' = FlowWhitelist(flow, whitelisted)
    /\ UNCHANGED <<chainVars, clockVars, interfaceVars, autoVars, portfolioVars, sideVars>>

FlowPoolStep ==
    /\ flow.pc = "pool"
    /\ \E known \in BOOLEAN :
        \E outcome \in (IF flow.comp = "AutoTrading" THEN AutoQuoteOutcomes
                        ELSE IF flow.comp = "BlockMonitor" THEN {"ok", "QuoteFailed"}
                        ELSE LiquidityOutcomes[known, flow.amountIn]) :
            flow' = FlowPool(flow, outcome)
    /\ UNCHANGED <<chainVars, clockVars, interfaceVars, autoVars, portfolioVars, sideVars>>

FlowConditionsStep ==
    /\ flow.pc = "conditions"
    /\ flow' = FlowConditions(flow, now)
    /\ UNCHANGED <<chainVars, clockVars, interfaceVars, autoVars, portfolioVars, sideVars>>

FlowBalanceStep ==
    /\ flow.pc = "balance"
    /\ \E portfolioOk \in BOOLEAN : flow' = FlowBalance(flow, portfolioOk)
    /\ UNCHANGED <<chainVars, clockVars, interfaceVars, autoVars, portfolioVars, sideVars>>

FlowAllowanceStep ==
    /\ flow.pc \in AllowanceStages
    /\ ~flow.pending
    /\ \E read \in {0, flow.amountIn - 1, flow.amountIn}, sent \in BOOLEAN :
        flow' = FlowAllowance(flow, flow.pc, read, sent)
    /\ UNCHANGED <<chainVars, clockVars, interfaceVars, autoVars, portfolioVars, sideVars>>

ApprovalMined ==
    /\ flow.pc \in AllowanceStages
    /\ flow.pending
    /\ \E confirmed \in BOOLEAN : flow' = AfterApproval(flow, flow.pc, confirmed)
    /\ UNCHANGED <<chainVars, clockVars, interfaceVars, autoVars, portfolioVars, sideVars>>

FlowMinimumStep ==
    /\ flow.pc = "minimum"
    /\ flow' = FlowMinimum(flow)
    /\ UNCHANGED <<chainVars, clockVars, interfaceVars, autoVars, portfolioVars, sideVars>>

FlowSimulateStep ==
    /\ flow.pc = "simulate"
    /\ \E ok \in BOOLEAN, mentions \in Mentions : flow' = FlowSimulate(flow, ok, mentions)
    /\ UNCHANGED <<chainVars, clockVars, interfaceVars, autoVars, portfolioVars, sideVars>>

FlowSendStep ==
    /\ flow.pc = "send"
    /\ \E gasEstimate \in GasEstimates, sent \in BOOLEAN, mentions \in Mentions :
        flow' = FlowSend(flow, gasEstimate, sent, mentions)
    /\ UNCHANGED <<chainVars, clockVars, interfaceVars, autoVars, portfolioVars, sideVars>>

FlowReceiptStep ==
    /\ flow.pc = "wait"
    /\ \E receipt \in FlowReceipts(flow.comp), mentions \in Mentions :
        flow' = AfterReceipt(flow, receipt, mentions)
    /\ UNCHANGED <<chainVars, clockVars, interfaceVars, autoVars, portfolioVars, sideVars>>

\* the flow is over and the next one can begin
FlowOver ==
    /\ flow.pc = "done"
    /\ flow' = NoFlow
    /\ UNCHANGED <<chainVars, clockVars, interfaceVars, autoVars, portfolioVars, sideVars>>

(***************************************************************************)
(* PortfolioManager.  The sources hold three versions of the contract:     *)
(* 1 is the first contract of PortfolioManager.sol (MIN_DEPOSIT,           *)
(* approvedTokenList, withdraw to a recipient), 2 the second contract of   *)
(* that file, 3 the contract with the auto-trading settings.  Calls are    *)
(* operators from the contract's storage and the token balances it holds   *)
(* to the storage and balances after the call, with the result.            *)
(***************************************************************************)
\* 1e6
MIN_DEPOSIT == 1000000

MAX_TOKENS_PER_PORTFOLIO == 10

\* units of each token in existence
TokenSupply == 2000000

\* approvedTokenList is followed up to this length
MaxTokenList == 2

Versions == {1, 2, 3}

Users == {"alice", "bob"}

PMSenders == {"owner", "aiTrader"} \cup Users

PMTokens == {"USDC", "CBBTC"}

\* address(0) besides the tokens
TokenAddresses == PMTokens \cup {"zero"}

\* a Portfolio no call has written (totalValue is never written)
NoPortfolio ==
    [riskLevel |-> 0, isActive |-> FALSE, tokenBalances |-> [t \in PMTokens |-> 0],
     autoTrading |-> FALSE, minConfidence |-> 0, maxRiskScore |-> 0, tradeAmount |-> 0]

\* the storage after the constructor, holding no token
NewManager ==
    [approvedTokens |-> [t \in TokenAddresses |-> FALSE],
     approvedTokenList |-> <<>>,
     userPortfolios |-> [u \in PMSenders |-> NoPortfolio],
     held |-> [t \in PMTokens |-> 0]]

\* the call reverted: storage and balances as before
Revert(pm, reason) == [status |-> "revert", reason |-> reason, returned |-> 0, pm |-> pm]

Return(pm, returned) == [status |-> "ok", reason |-> "", returned |-> returned, pm |-> pm]

\* addToken without the onlyOwner modifier
addToken_AnyCaller(pm, version, sender, token) ==
    IF version = 1 /\ token = "zero" THEN Revert(pm, "Invalid token")
    ELSE Return([pm EXCEPT !.approvedTokens[token] = TRUE,
                           !.approvedTokenList =
                               IF version = 1 THEN Append(@, token) ELSE @], 0)

addToken(pm, version, sender, token) ==
    IF sender # "owner" THEN Revert(pm, "Not owner")
    ELSE IF version = 1 /\ token = "zero" THEN Revert(pm, "Invalid token")
    ELSE Return([pm EXCEPT !.approvedTokens[token] = TRUE,
                           !.approvedTokenList =
                               IF version = 1 THEN Append(@, token) ELSE @], 0)

RECURSIVE PortfolioTokensFrom(_, _, _, _)

\* the loop of removeToken: the first entry equal to the token is overwritten
\* with the last entry, and the last entry popped
RemoveFromList(list, token) ==
    IF \E i \in DOMAIN list : list[i] = token
    THEN LET i == CHOOSE k \in DOMAIN list :
                    list[k] = token /\ \A j \in 1..(k - 1) : list[j] # token
             moved == [list EXCEPT ![i] = list[Len(list)]]
         IN SubSeq(moved, 1, Len(list) - 1)
    ELSE list

removeToken(pm, version, sender, token) ==
    IF sender # "owner" THEN Revert(pm, "Not owner")
    ELSE Return([pm EXCEPT !.approvedTokens[token] = FALSE,
                           !.approvedTokenList =
                               IF version = 1 THEN RemoveFromList(@, token) ELSE @], 0)

\* createPortfolio without its first require
createPortfolio_AnyRisk(pm, sender, riskLevel) ==
    IF ~(~pm.userPortfolios[sender].isActive) THEN Revert(pm, "Portfolio exists")
    ELSE Return([pm EXCEPT !.userPortfolios[sender].riskLevel = riskLevel,
                           !.userPortfolios[sender].isActive = TRUE], 0)

createPortfolio(pm, sender, riskLevel) ==
    IF ~(riskLevel > 0 /\ riskLevel <= 10) THEN Revert(pm, "Invalid risk level")
    ELSE IF ~(~pm.userPortfolios[sender].isActive) THEN Revert(pm, "Portfolio exists")
    ELSE Return([pm EXCEPT !.userPortfolios[sender].riskLevel = riskLevel,
                           !.userPortfolios[sender].isActive = TRUE], 0)

\* IERC20(_token).transferFrom(msg.sender, address(this), _amount) moves the
\* amount or reverts.  funded: the caller holds the amount and has approved it
TransferFromMoves(pm, token, amount, funded) ==
    funded /\ amount <= TokenSupply - pm.held[token]

\* deposit crediting the amount to every portfolio
deposit_CreditsAll(pm, version, sender, token, amount, funded) ==
    IF ~pm.approvedTokens[token] THEN Revert(pm, "Token not approved")
    ELSE IF version = 1 /\ ~(amount >= MIN_DEPOSIT) THEN Revert(pm, "Amount too low")
    ELSE IF ~pm.userPortfolios[sender].isActive THEN Revert(pm, "No active portfolio")
    ELSE IF ~TransferFromMoves(pm, token, amount, funded)
    THEN Revert(pm, "transferFrom reverted")
    ELSE Return([pm EXCEPT !.held[token] = @ + amount,
                           !.userPortfolios =
                               [u \in PMSenders |->
                                   [@[u] EXCEPT !.tokenBalances[token] = @ + amount]]], 0)

deposit(pm, version, sender, token, amount, funded) ==
    IF ~pm.approvedTokens[token] THEN Revert(pm, "Token not approved")
    ELSE IF version = 1 /\ ~(amount >= MIN_DEPOSIT) THEN Revert(pm, "Amount too low")
    ELSE IF ~pm.userPortfolios[sender].isActive THEN Revert(pm, "No active portfolio")
    ELSE IF ~TransferFromMoves(pm, token, amount, funded)
    THEN Revert(pm, "transferFrom reverted")
    ELSE Return([pm EXCEPT !.held[token] = @ + amount,
                           !.userPortfolios[sender].tokenBalances[token] = @ + amount], 0)

\* withdraw with the require on approvedTokens that deposit has
withdraw_ApprovedOnly(pm, version, sender, token, amount, recipient) ==
    IF ~pm.approvedTokens[token] THEN Revert(pm, "Token not approved")
    ELSE IF ~pm.userPortfolios[sender].isActive THEN Revert(pm, "No active portfolio")
    ELSE IF version = 1 /\ recipient = "zero" THEN Revert(pm, "Invalid recipient")
    ELSE IF ~(pm.userPortfolios[sender].tokenBalances[token] >= amount)
    THEN Revert(pm, "Insufficient balance")
    ELSE IF ~(pm.held[token] >= amount) THEN Revert(pm, "transfer reverted")
    ELSE Return([pm EXCEPT !.userPortfolios[sender].tokenBalances[token] = @ - amount,
                           !.held[token] = @ - amount], 0)

\* withdraw.  In version 1 the recipient is an argument, "zero" for
\* address(0); in the others it is the caller
withdraw(pm, version, sender, token, amount, recipient) ==
    IF ~pm.userPortfolios[sender].isActive THEN Revert(pm, "No active portfolio")
    ELSE IF version = 1 /\ recipient = "zero" THEN Revert(pm, "Invalid recipient")
    ELSE IF ~(pm.userPortfolios[sender].tokenBalances[token] >= amount)
    THEN Revert(pm, "Insufficient balance")
    ELSE IF ~(pm.held[token] >= amount) THEN Revert(pm, "transfer reverted")
    ELSE Return([pm EXCEPT !.userPortfolios[sender].tokenBalances[token] = @ - amount,
                           !.held[token] = @ - amount], 0)

\* the loop of getPortfolioTokens from index i on: the tokens of the list
\* with a positive balance, in list order, until count reaches the maximum
PortfolioTokensFrom(pm, user, i, tokens) ==
    IF ~(i <= Len(pm.approvedTokenList) /\ Len(tokens) < MAX_TOKENS_PER_PORTFOLIO)
    THEN tokens
    ELSE LET token == pm.approvedTokenList[i] IN
         PortfolioTokensFrom(pm, user, i + 1,
             IF token \in PMTokens /\ pm.userPortfolios[user].tokenBalances[token] > 0
             THEN Append(tokens, token) ELSE tokens)

\* getPortfolioTokens of the first contract: the tokens array it returns
getPortfolioTokens(pm, user) ==
    IF ~pm.userPortfolios[user].isActive THEN Revert(pm, "No active portfolio")
    ELSE Return(pm, PortfolioTokensFrom(pm, user, 1, <<>>))

\* what aiTrader.executeTrade(_tokenIn, _tokenOut, _amount, address(this), "")
\* can come to: a revert (-1), or the amount taken from the contract and
\* out paid to it
TraderOuts(pm, tokenOut, amount) ==
    {-1} \cup {out \in {0, amount} : out <= TokenSupply - pm.held[tokenOut]}

\* the body of executeAITrade, after the onlyAI modifier
executeAITradeBody(pm, version, sender, user, tokenIn, tokenOut, amount, out) ==
    LET debited == [pm EXCEPT !.userPortfolios[user].tokenBalances[tokenIn] = @ - amount]
    IN IF ~(pm.approvedTokens[tokenIn] /\ pm.approvedTokens[tokenOut])
       THEN Revert(pm, "Unapproved tokens")
       ELSE IF ~pm.userPortfolios[user].isActive THEN Revert(pm, "No active portfolio")
       ELSE IF ~(pm.userPortfolios[user].tokenBalances[tokenIn] >= amount)
       THEN Revert(pm, "Insufficient balance")
       ELSE IF version = 2
       THEN Return([debited EXCEPT !.userPortfolios[user].tokenBalances[tokenOut] =
                                        @ + amount], 0)
       ELSE IF out < 0 \/ ~(pm.held[tokenIn] >= amount)
       THEN Revert(pm, "executeTrade reverted")
       ELSE LET taken == [debited EXCEPT !.held[tokenIn] = @ - amount]
                paid == [taken EXCEPT !.held[tokenOut] = @ + out]
            IN Return([paid EXCEPT !.userPortfolios[user].tokenBalances[tokenOut] =
                                        @ + out], out)

\* executeAITrade.  Version 2 moves the recorded amount from one token to
\* the other and calls no trader
executeAITrade(pm, version, sender, user, tokenIn, tokenOut, amount, out) ==
    IF sender # "aiTrader" THEN Revert(pm, "Not AI trader")
    ELSE executeAITradeBody(pm, version, sender, user, tokenIn, tokenOut, amount, out)

\* updateAutoTrading without the require on _minConfidence
updateAutoTrading_AnyConfidence(pm, sender, enabled, minConfidence, maxRiskScore, tradeAmount) ==
    IF ~pm.userPortfolios[sender].isActive THEN Revert(pm, "No active portfolio")
    ELSE IF ~(maxRiskScore <= 100) THEN Revert(pm, "Invalid risk score")
    ELSE IF ~(tradeAmount > 0) THEN Revert(pm, "Invalid trade amount")
    ELSE Return([pm EXCEPT !.userPortfolios[sender].autoTrading = enabled,
                           !.userPortfolios[sender].minConfidence = minConfidence,
                           !.userPortfolios[sender].maxRiskScore = maxRiskScore,
                           !.userPortfolios[sender].tradeAmount = tradeAmount], 0)

updateAutoTrading(pm, sender, enabled, minConfidence, maxRiskScore, tradeAmount) ==
    IF ~pm.userPortfolios[sender].isActive THEN Revert(pm, "No active portfolio")
    ELSE IF ~(minConfidence <= 100) THEN Revert(pm, "Invalid confidence")
    ELSE IF ~(maxRiskScore <= 100) THEN Revert(pm, "Invalid risk score")
    ELSE IF ~(tradeAmount > 0) THEN Revert(pm, "Invalid trade amount")
    ELSE Return([pm EXCEPT !.userPortfolios[sender].autoTrading = enabled,
                           !.userPortfolios[sender].minConfidence = minConfidence,
                           !.userPortfolios[sender].maxRiskScore = maxRiskScore,
                           !.userPortfolios[sender].tradeAmount = tradeAmount], 0)

\* getAutoTradingSettings: the four fields, whether or not the portfolio is active
getAutoTradingSettings(pm, user) ==
    <<pm.userPortfolios[user].autoTrading, pm.userPortfolios[user].minConfidence,
      pm.userPortfolios[user].maxRiskScore, pm.userPortfolios[user].tradeAmount>>

\* the contract's storage and token balances as one record
Manager ==
    [approvedTokens |-> approvedTokens, approvedTokenList |-> approvedTokenList,
     userPortfolios |-> userPortfolios, held |-> held]

NoTxn ==
    [fn |-> "none", sender |-> "none", user |-> "none", token |-> "none",
     tokenOut |-> "none", amount |-> 0, enabled |-> FALSE, minConfidence |-> 0,
     maxRiskScore |-> 0, status |-> "none", reason |-> "", returned |-> 0]

PortfolioInit ==
    /\ pmVersion = 1
    /\ approvedTokens = NewManager.approvedTokens
    /\ approvedTokenList = NewManager.approvedTokenList
    /\ userPortfolios = NewManager.userPortfolios
    /\ held = NewManager.held
    /\ txn = NoTxn

\* a transaction to the contract is mined: call carries the function and
\* its arguments, result what the function came to.  Of a reverted
\* transaction the function and the reason are kept
Transact(call, result) ==
    /\ txn' = IF result.status = "revert"
              THEN [NoTxn EXCEPT !.fn = call.fn, !.status = "revert",
                                 !.reason = result.reason]
              ELSE [call EXCEPT !.status = "ok", !.returned = result.returned]
    /\ approvedTokens' = result.pm.approvedTokens
    /\ approvedTokenList' = result.pm.approvedTokenList
    /\ userPortfolios' = result.pm.userPortfolios
    /\ held' = result.pm.held
    /\ pmVersion' = pmVersion
    /\ UNCHANGED <<chainVars, clockVars, interfaceVars, autoVars, flowVars, sideVars>>

AddToken(sender, token) ==
    /\ pmVersion = 1 => Len(approvedTokenList) < MaxTokenList
    /\ pmVersion # 1 => token \in PMTokens
    /\ Transact([NoTxn EXCEPT !.fn = "addToken", !.sender = sender, !.token = token],
                addToken(Manager, pmVersion, sender, token))

RemoveToken(sender, token) ==
    Transact([NoTxn EXCEPT !.fn = "removeToken", !.sender = sender, !.token = token],
             removeToken(Manager, pmVersion, sender, token))

CreatePortfolio(sender, riskLevel) ==
    Transact([NoTxn EXCEPT !.fn = "createPortfolio", !.sender = sender,
                           !.amount = riskLevel],
             createPortfolio(Manager, sender, riskLevel))

Deposit(sender, token, amount, funded) ==
    Transact([NoTxn EXCEPT !.fn = "deposit", !.sender = sender, !.token = token,
                           !.amount = amount],
             deposit(Manager, pmVersion, sender, token, amount, funded))

Withdraw(sender, token, amount, recipient) ==
    /\ pmVersion # 1 => recipient = sender
    /\ Transact([NoTxn EXCEPT !.fn = "withdraw", !.sender = sender, !.token = token,
                              !.amount = amount, !.user = recipient],
                withdraw(Manager, pmVersion, sender, token, amount, recipient))

ExecuteAITrade(sender, user, tokenIn, tokenOut, amount) ==
    \E out \in TraderOuts(Manager, tokenOut, amount) :
        Transact([NoTxn EXCEPT !.fn = "executeAITrade", !.sender = sender,
                               !.user = user, !.token = tokenIn, !.tokenOut = tokenOut,
                               !.amount = amount],
                 executeAITrade(Manager, pmVersion, sender, user, tokenIn, tokenOut,
                                amount, out))

UpdateAutoTrading(sender, enabled, minConfidence, maxRiskScore, tradeAmount) ==
    /\ pmVersion = 3
    /\ Transact([NoTxn EXCEPT !.fn = "updateAutoTrading", !.sender = sender,
                              !.enabled = enabled, !.minConfidence = minConfidence,
                              !.maxRiskScore = maxRiskScore, !.amount = tradeAmount],
                updateAutoTrading(Manager, sender, enabled, minConfidence, maxRiskScore,
                                  tradeAmount))

(***************************************************************************)
(* AutoTrading.tsx render by render.  A function of the component reads    *)
(* the settings state of the render that created it: loadSettings is the   *)
(* function of the first render, a click handler that of the render on     *)
(* screen, and the callback given to setInterval that of the render whose  *)
(* startAutoTrading was called.  The user is alice, on the contract with   *)
(* the auto-trading settings                                               *)
(***************************************************************************)
\* ethers.formatUnits(x, 6): the decimal string, as <<whole, millionths>>
formatUnits6(x) == <<x \div 1000000, x % 1000000>>

\* ethers.parseUnits(s, 6)
parseUnits6(s) == s[1] * 1000000 + s[2]

\* useState of settings; tradeAmount "100"
InitialSettings ==
    [enabled |-> FALSE, minConfidence |-> 80, maxRiskScore |-> 20,
     tradeAmount |-> <<100, 0>>]

\* what the oracle answers
Predictions == [confidence : {75, 85}, riskScore : {10}, isHoneypot : {FALSE}]

\* what the user types into the fields
TypedConfidences == {70, 101}

TypedRiskScores == {30}

TypedAmounts == {<<50, 0>>}

\* the numbers of a settings value that a cycle works with
Thresholds(s) ==
    [minConfidence |-> s.minConfidence, maxRiskScore |-> s.maxRiskScore,
     tradeAmount |-> parseUnits6(s.tradeAmount)]

\* settings, loading, updating, error: the state of the component (error:
\* it is not null).  pending: the settings of the render whose
\* updateSettings is under way.  timer: the settings of the render whose
\* checkAndExecuteTrade was given to setInterval, none when
\* autoTradingInterval is clear.  cycle: the last call of
\* checkAndExecuteTrade, seq changing with each call.  latest: the numbers
\* last loaded from the contract or saved to it.  lastUpdate: how the last
\* updateSettings ended
NoPanel ==
    [settings |-> InitialSettings, loading |-> TRUE, updating |-> FALSE,
     error |-> FALSE, pending |-> {}, timer |-> {},
     cycle |-> [seq |-> 0, used |-> {}, decision |-> "none"],
     latest |-> {}, lastUpdate |-> "none"]

\* checkAndExecuteTrade of a render whose settings are s, as far as the
\* comparisons with the prediction and the parsing of the amount
checkAndExecuteTradeOf(p, s, prediction) ==
    [p EXCEPT !.cycle =
        [seq |-> 1 - p.cycle.seq,
         used |-> {Thresholds(s)},
         decision |-> IF prediction.confidence < s.minConfidence
                      THEN "Confidence too low - skipping trade"
                      ELSE IF prediction.riskScore > s.maxRiskScore
                      THEN "Risk too high - skipping trade"
                      ELSE IF prediction.isHoneypot
                      THEN "Potential honeypot detected - skipping trade"
                      ELSE "trade"]]

\* startAutoTrading of a render whose settings are s
startAutoTradingOf(p, s, prediction) ==
    checkAndExecuteTradeOf([p EXCEPT !.timer = {s}], s, prediction)

stopAutoTradingOf(p) == [p EXCEPT !.timer = {}]

\* loadSettings, called by the mount effect of the first render, whose
\* settings are those of p.  stored: what getAutoTradingSettings returns
loadSettings(p, stored, failed, prediction) ==
    LET loaded == [enabled |-> stored[1], minConfidence |-> stored[2],
                   maxRiskScore |-> stored[3], tradeAmount |-> formatUnits6(stored[4])]
        shown == [p EXCEPT !.settings = loaded, !.latest = {Thresholds(loaded)},
                           !.loading = FALSE]
    IN IF failed THEN [p EXCEPT !.error = TRUE, !.loading = FALSE]
       ELSE IF stored[1] THEN startAutoTradingOf(shown, p.settings, prediction)
       ELSE shown

\* updateSettings up to the await of the transaction
updateSettingsSend(p) ==
    [p EXCEPT !.updating = TRUE, !.error = FALSE, !.pending = {p.settings}]

\* the rest of updateSettings that starts or stops the loop whatever became
\* of the transaction
updateSettingsDone_Regardless(p, s, outcome, prediction) ==
    LET over == [p EXCEPT !.updating = FALSE, !.pending = {}, !.lastUpdate = outcome] IN
    IF outcome = "confirmed"
    THEN LET saved == [over EXCEPT !.latest = {Thresholds(s)}] IN
         IF s.enabled THEN startAutoTradingOf(saved, s, prediction)
         ELSE stopAutoTradingOf(saved)
    ELSE LET failed == [over EXCEPT !.error = TRUE] IN
         IF s.enabled THEN startAutoTradingOf(failed, s, prediction)
         ELSE stopAutoTradingOf(failed)

\* the rest of updateSettings, of the render whose settings are s: after
\* await tx.wait() when the transaction is confirmed, the catch otherwise
updateSettingsDone(p, s, outcome, prediction) ==
    LET over == [p EXCEPT !.updating = FALSE, !.pending = {}, !.lastUpdate = outcome] IN
    IF outcome = "confirmed"
    THEN LET saved == [over EXCEPT !.latest = {Thresholds(s)}] IN
         IF s.enabled THEN startAutoTradingOf(saved, s, prediction)
         ELSE stopAutoTradingOf(saved)
    ELSE [over EXCEPT !.error = TRUE]

\* getAutoTradingSettings resolves or throws
PanelLoads ==
    /\ panel.loading
    /\ \E failed \in BOOLEAN, prediction \in Predictions :
        panel' = loadSettings(panel, getAutoTradingSettings(Manager, "alice"), failed,
                              prediction)
    /\ UNCHANGED checker
    /\ UNCHANGED <<chainVars, clockVars, interfaceVars, autoVars, flowVars, portfolioVars>>

\* the onChange handlers of the four fields
PanelEdits(field, value) ==
    /\ ~panel.loading
    /\ panel.settings[field] # value
    /\ panel' = [panel EXCEPT !.settings[field] = value]
    /\ UNCHANGED checker
    /\ UNCHANGED <<chainVars, clockVars, interfaceVars, autoVars, flowVars, portfolioVars>>

\* the Update Settings button, disabled while updating
PanelClicksUpdate ==
    /\ ~panel.loading
    /\ ~panel.updating
    /\ panel' = updateSettingsSend(panel)
    /\ UNCHANGED checker
    /\ UNCHANGED <<chainVars, clockVars, interfaceVars, autoVars, flowVars, portfolioVars>>

\* the updateAutoTrading transaction is confirmed, reverts, or the wallet
\* rejected it
PanelUpdateEnds ==
    /\ panel.pending # {}
    /\ \E s \in panel.pending, rejected \in BOOLEAN, prediction \in Predictions :
        LET result == updateAutoTrading(Manager, "alice", s.enabled, s.minConfidence,
                                        s.maxRiskScore, parseUnits6(s.tradeAmount))
            outcome == IF rejected THEN "rejected"
                       ELSE IF result.status = "revert" THEN "reverted"
                       ELSE "confirmed"
        IN /\ panel' = updateSettingsDone(panel, s, outcome, prediction)
           /\ userPortfolios' = IF outcome = "confirmed" THEN result.pm.userPortfolios
                                 ELSE userPortfolios
           /\ txn' = IF outcome = "rejected" THEN txn
                     ELSE IF outcome = "reverted"
                     THEN [NoTxn EXCEPT !.fn = "updateAutoTrading", !.status = "revert",
                                        !.reason = result.reason]
                     ELSE [NoTxn EXCEPT !.fn = "updateAutoTrading", !.sender = "alice",
                                        !.enabled = s.enabled,
                                        !.minConfidence = s.minConfidence,
                                        !.maxRiskScore = s.maxRiskScore,
                                        !.amount = parseUnits6(s.tradeAmount),
                                        !.status = "ok"]
    /\ UNCHANGED <<pmVersion, approvedTokens, approvedTokenList, held>>
    /\ UNCHANGED checker
    /\ UNCHANGED <<chainVars, clockVars, interfaceVars, autoVars, flowVars>>

\* the interval is due: the callback given to setInterval is called
PanelTimerFires ==
    /\ panel.timer # {}
    /\ \E s \in panel.timer, prediction \in Predictions :
        panel' = checkAndExecuteTradeOf(panel, s, prediction)
    /\ UNCHANGED checker
    /\ UNCHANGED <<chainVars, clockVars, interfaceVars, autoVars, flowVars, portfolioVars>>

(***************************************************************************)
(* HoneypotChecker (GoDegen.sol)                                           *)
(***************************************************************************)
\* the total supply of the probed token stays within this many units, far
\* below 2^256 / 100, where ownerBalance * 100 would overflow and revert
MaxSupply == 200

\* what a mint or a transfer moves
TokenMoves == {1, 50}

\* sellOk: the staticcall of sell(1e18) succeeds.  ownerBalance:
\* balanceOf(owner()).  totalSupply: totalSupply()
NewToken == [sellOk |-> TRUE, ownerBalance |-> 0, totalSupply |-> 0]

\* no call of isHoneypot since the token last changed
NoAnswer == [status |-> "none", result |-> FALSE]

\* HoneypotChecker.isHoneypot; the division by a zero totalSupply reverts
isHoneypot(token) ==
    IF ~token.sellOk THEN [status |-> "ok", result |-> TRUE]
    ELSE IF token.totalSupply = 0 THEN [status |-> "revert", result |-> FALSE]
    ELSE [status |-> "ok",
          result |-> (token.ownerBalance * 100) \div token.totalSupply > 80]

SideInit ==
    /\ panel = NoPanel
    /\ checker = [token |-> NewToken, answer |-> NoAnswer]

\* the token mints amount, to its owner or to somebody else
TokenMint(amount, toOwner) ==
    /\ checker.token.totalSupply + amount <= MaxSupply
    /\ checker' = [checker EXCEPT !.token.totalSupply = @ + amount,
                                  !.token.ownerBalance = IF toOwner THEN @ + amount ELSE @,
                                  !.answer = NoAnswer]
    /\ UNCHANGED panel
    /\ UNCHANGED <<chainVars, clockVars, interfaceVars, autoVars, flowVars, portfolioVars>>

\* a transfer of the token to its owner, or from its owner
TokenTransfer(amount, toOwner) ==
    /\ IF toOwner
       THEN checker.token.ownerBalance + amount <= checker.token.totalSupply
       ELSE checker.token.ownerBalance >= amount
    /\ checker' = [checker EXCEPT !.token.ownerBalance =
                                      IF toOwner THEN @ + amount ELSE @ - amount,
                                  !.answer = NoAnswer]
    /\ UNCHANGED panel
    /\ UNCHANGED <<chainVars, clockVars, interfaceVars, autoVars, flowVars, portfolioVars>>

\* the token starts or stops answering sell(uint256)
TokenSetSell(sellOk) ==
    /\ checker.token.sellOk # sellOk
    /\ checker' = [checker EXCEPT !.token.sellOk = sellOk, !.answer = NoAnswer]
    /\ UNCHANGED panel
    /\ UNCHANGED <<chainVars, clockVars, interfaceVars, autoVars, flowVars, portfolioVars>>

\* a call of isHoneypot(token)
CallIsHoneypot ==
    /\ checker.answer = NoAnswer
    /\ checker' = [checker EXCEPT !.answer = isHoneypot(checker.token)]
    /\ UNCHANGED panel
    /\ UNCHANGED <<chainVars, clockVars, interfaceVars, autoVars, flowVars, portfolioVars>>

(***************************************************************************)
(* SpecChain: the contract and the quote path of the components over one   *)
(* state of the pools                                                      *)
(***************************************************************************)
NoCall ==
    [fn |-> "none", status |-> "none", reason |-> "", fee |-> 0, amountIn |-> 0,
     quotedAmount |-> 0, minAmountOut |-> 0, amountOut |-> 0]

\* amounts a caller passes to the contract
CallAmounts == {MIN_TRADE_AMOUNT - 1, MIN_TRADE_AMOUNT}

\* what the router may return when the quoter answers q: -1 is a revert
RouterOuts(q) == {-1, 0, (q \div 2) - 1, q \div 2, q}

InitChain ==
    /\ snap \in Snapshots
    /\ whitelistedTokens = [t \in TokenPair |-> FALSE]
    /\ lastCall = NoCall
    /\ sel = NoSel
    /\ poolQuotes = {}
    /\ ClockInit
    /\ revision = 3
    /\ InterfaceInit
    /\ AutoInit
    /\ FlowInit
    /\ SideInit
    /\ PortfolioInit

\* no call or flow is under way
Idle == lastCall = NoCall /\ sel = NoSel

\* the whitelistedTokens reads of a flow, made before its pool search:
\* the flow throws unless both answer true
WhitelistRead == whitelistedTokens["USDC"] /\ whitelistedTokens["CBBTC"]

\* a whitelistToken transaction that does not revert
WhitelistToken(sender, token, status) ==
    /\ whitelistToken(whitelistedTokens, sender, token, status).status = "ok"
    /\ whitelistedTokens' =
            whitelistToken(whitelistedTokens, sender, token, status).whitelistedTokens
    /\ UNCHANGED <<snap, lastCall, sel, poolQuotes>>
    /\ UNCHANGED <<clockVars, interfaceVars, autoVars, flowVars, portfolioVars, sideVars>>

CallExecuteManualTrade ==
    /\ Idle
    /\ \E amountIn \in CallAmounts, q \in PosQuotes, transferOk \in BOOLEAN :
      \E routerOut \in RouterOuts(q) :
        /\ lastCall' = executeManualTrade("executeManualTrade", snap, whitelistedTokens,
                                          amountIn, q, transferOk, routerOut)
        /\ poolQuotes' = poolQuotesAfter(poolQuotes, lastCall', now)
        /\ sel' = sel
        /\ UNCHANGED <<snap, whitelistedTokens>>
        /\ UNCHANGED <<clockVars, interfaceVars, autoVars, flowVars, portfolioVars, sideVars>>

CallExecuteTrade ==
    /\ Idle
    /\ \E sender \in Senders, amountIn \in CallAmounts, q \in PosQuotes,
       transferOk \in BOOLEAN :
      \E routerOut \in RouterOuts(q) :
        /\ lastCall' = executeTrade(sender, snap, whitelistedTokens,
                                    amountIn, q, transferOk, routerOut)
        /\ poolQuotes' = poolQuotesAfter(poolQuotes, lastCall', now)
        /\ sel' = sel
        /\ UNCHANGED <<snap, whitelistedTokens>>
        /\ UNCHANGED <<clockVars, interfaceVars, autoVars, flowVars, portfolioVars, sideVars>>

CallExecuteTrade_v1 ==
    /\ Idle
    /\ \E sender \in Senders, amountIn \in CallAmounts, q \in PosQuotes,
       transferOk \in BOOLEAN :
      \E routerOut \in RouterOuts(q) :
        /\ lastCall' = executeTrade_v1(sender, snap, whitelistedTokens,
                                       amountIn, q, transferOk, routerOut)
        /\ sel' = sel
        /\ UNCHANGED <<snap, whitelistedTokens, poolQuotes>>
        /\ UNCHANGED <<clockVars, interfaceVars, autoVars, flowVars, portfolioVars, sideVars>>

CallExecuteManualTrade_v1 ==
    /\ Idle
    /\ \E amountIn \in CallAmounts, q \in PosQuotes, transferOk \in BOOLEAN :
      \E routerOut \in RouterOuts(q) :
        /\ lastCall' = executeManualTrade_v1(snap, whitelistedTokens,
                                             amountIn, q, transferOk, routerOut)
        /\ poolQuotes' = poolQuotesAfter(poolQuotes, lastCall', now)
        /\ sel' = sel
        /\ UNCHANGED <<snap, whitelistedTokens>>
        /\ UNCHANGED <<clockVars, interfaceVars, autoVars, flowVars, portfolioVars, sideVars>>

\* the auto-trading cycle reaches its quote stage
AutoQuoteStep ==
    /\ Idle
    /\ WhitelistRead
    /\ \E amountIn \in FrontAmounts :
        /\ sel' = AutoQuote(snap, directQuote(snap, AutoBestFee(snap)), amountIn)
        /\ lastCall' = lastCall
        /\ UNCHANGED <<snap, whitelistedTokens, poolQuotes>>
        /\ UNCHANGED <<clockVars, interfaceVars, autoVars, flowVars, portfolioVars, sideVars>>

\* the manual flow runs checkPoolLiquidity
CheckLiquidityStep ==
    /\ Idle
    /\ WhitelistRead
    /\ \E known \in BOOLEAN, amountIn \in FrontAmounts :
        /\ sel' = checkPoolLiquidity(snap, known, amountIn)
        /\ lastCall' = lastCall
        /\ UNCHANGED <<snap, whitelistedTokens, poolQuotes>>
        /\ UNCHANGED <<clockVars, interfaceVars, autoVars, flowVars, portfolioVars, sideVars>>

\* the flow's executeManualTrade transaction is mined
SubmitTrade ==
    /\ sel.outcome = "ok"
    /\ lastCall = NoCall
    /\ \E q \in PosQuotes, transferOk \in BOOLEAN :
        \E routerOut \in RouterOuts(q) :
        /\ lastCall' = executeManualTrade("executeManualTrade", snap, whitelistedTokens,
                                          sel.amountIn, q, transferOk, routerOut)
        /\ poolQuotes' = poolQuotesAfter(poolQuotes, lastCall', now)
    /\ UNCHANGED <<snap, whitelistedTokens, sel>>
    /\ UNCHANGED <<clockVars, interfaceVars, autoVars, flowVars, portfolioVars, sideVars>>

\* the call or flow is over; the next one starts from the same chain state
NextOperation ==
    /\ ~Idle
    /\ lastCall' = NoCall
    /\ sel' = NoSel
    /\ UNCHANGED <<snap, whitelistedTokens, poolQuotes>>
    /\ UNCHANGED <<clockVars, interfaceVars, autoVars, flowVars, portfolioVars, sideVars>>

NextChain ==
    \/ \E sender \in Senders, token \in TokenPair, status \in BOOLEAN :
            WhitelistToken(sender, token, status)
    \/ CallExecuteManualTrade
    \/ CallExecuteTrade
    \/ CallExecuteTrade_v1
    \/ CallExecuteManualTrade_v1
    \/ AutoQuoteStep
    \/ CheckLiquidityStep
    \/ SubmitTrade
    \/ NextOperation

SpecChain == InitChain /\ [][NextChain]_vars

(***************************************************************************)
(* Spec: the manual flow of a mounted TradingInterface against the clock   *)
(***************************************************************************)
NoPools == [f \in Fees |-> [pool |-> FALSE, liq |-> 0, quote |-> "revert"]]

ChainInit ==
    /\ snap = NoPools
    /\ whitelistedTokens = [t \in TokenPair |-> FALSE]
    /\ lastCall = NoCall
    /\ sel = NoSel
    /\ poolQuotes = {}

Init ==
    /\ ChainInit
    /\ ClockInit
    /\ revision \in {1, 2, 3}
    /\ InterfaceInit
    /\ AutoInit
    /\ FlowInit
    /\ SideInit
    /\ PortfolioInit

Next ==
    \/ Tick
    \/ \E checked \in BOOLEAN : SetDegenMode(checked)
    \/ ToggleAutoTrading
    \/ \E t \in TradeTokens : ClickExecuteTrade(t)
    \/ \E t \in TradeTokens : PrechecksDone(t)
    \/ \E t \in TradeTokens : SendTrade(t)
    \/ \E t \in TradeTokens : ReceiptArrives(t)

Spec == Init /\ [][Next]_vars

(***************************************************************************)
(* SpecAuto: the AutoTrading component, its interval and its cycles        *)
(***************************************************************************)
InitAuto ==
    /\ ChainInit
    /\ ClockInit
    /\ revision = 3
    /\ InterfaceInit
    /\ AutoInit
    /\ FlowInit
    /\ SideInit
    /\ PortfolioInit

NextAuto ==
    \/ Tick
    \/ LoadSettings
    \/ \E checked \in BOOLEAN : SetEnabled(checked)
    \/ ClickUpdateSettings
    \/ UpdateSettingsDone
    \/ ClickTestAutoTrade
    \/ TestAutoTradeDone
    \/ Unmount
    \/ IntervalFires
    \/ CycleChecks
    \/ CycleQuote
    \/ CycleSubmit
    \/ CycleReceipt

SpecAuto == InitAuto /\ [][NextAuto]_vars

(***************************************************************************)
(* SpecFlow: one trade flow at a time, stage by stage                      *)
(***************************************************************************)
InitFlow ==
    /\ ChainInit
    /\ ClockInit
    /\ revision = 3
    /\ InterfaceInit
    /\ AutoInit
    /\ FlowInit
    /\ SideInit
    /\ PortfolioInit

NextFlow ==
    \/ \E comp \in Components : FlowBegins(comp)
    \/ FlowFetchStep
    \/ FlowPredictionStep
    \/ FlowWhitelistStep
    \/ FlowPoolStep
    \/ FlowConditionsStep
    \/ FlowBalanceStep
    \/ FlowAllowanceStep
    \/ ApprovalMined
    \/ FlowMinimumStep
    \/ FlowSimulateStep
    \/ FlowSendStep
    \/ FlowReceiptStep
    \/ FlowOver

SpecFlow == InitFlow /\ [][NextFlow]_vars

(***************************************************************************)
(* SpecAccess: the calls of both contracts that a modifier restricts, sent *)
(* by every kind of caller, over one pool of the pair                      *)
(***************************************************************************)
\* the 0.05% pool alone, with liquidity and a quote
OnePool ==
    [f \in Fees |-> IF f = 500 THEN [pool |-> TRUE, liq |-> LiqUnit, quote |-> "ok"]
                    ELSE [pool |-> FALSE, liq |-> 0, quote |-> "revert"]]

InitAccess ==
    /\ snap = OnePool
    /\ whitelistedTokens = [t \in TokenPair |-> FALSE]
    /\ lastCall = NoCall
    /\ sel = NoSel
    /\ poolQuotes = {}
    /\ ClockInit
    /\ revision = 3
    /\ InterfaceInit
    /\ AutoInit
    /\ FlowInit
    /\ SideInit
    /\ pmVersion \in Versions
    /\ approvedTokens = NewManager.approvedTokens
    /\ approvedTokenList = NewManager.approvedTokenList
    /\ userPortfolios = NewManager.userPortfolios
    /\ held = NewManager.held
    /\ txn = NoTxn

\* a transaction to GoDegen is mined; the PortfolioManager is not touched
TransactGoDegen(fn, sender, status, reason, returned) ==
    /\ txn' = IF status = "revert"
              THEN [NoTxn EXCEPT !.fn = fn, !.status = "revert", !.reason = reason]
              ELSE [NoTxn EXCEPT !.fn = fn, !.sender = sender, !.status = "ok",
                                 !.returned = returned]
    /\ UNCHANGED <<pmVersion, approvedTokens, approvedTokenList, userPortfolios, held>>
    /\ UNCHANGED <<snap, lastCall, sel, poolQuotes>>
    /\ UNCHANGED <<clockVars, interfaceVars, autoVars, flowVars, sideVars>>

SendWhitelistToken(sender, token, status) ==
    LET result == whitelistToken(whitelistedTokens, sender, token, status) IN
    /\ whitelistedTokens' = result.whitelistedTokens
    /\ TransactGoDegen("whitelistToken", sender, result.status, result.reason, 0)

\* executeTrade of the later contract (contract = 2) or of the first
SendExecuteTrade(contract, sender, amountIn, transferOk, routerOut) ==
    LET result == IF contract = 2
                  THEN executeTrade(sender, snap, whitelistedTokens, amountIn, MaxQuote,
                                    transferOk, routerOut)
                  ELSE executeTrade_v1(sender, snap, whitelistedTokens, amountIn,
                                       MaxQuote, transferOk, routerOut)
    IN /\ whitelistedTokens' = whitelistedTokens
       /\ TransactGoDegen(result.fn, sender, result.status, result.reason,
                          result.amountOut)

NextAccess ==
    \/ \E sender \in Senders, token \in TokenPair, status \in BOOLEAN :
            SendWhitelistToken(sender, token, status)
    \/ \E contract \in {1, 2}, sender \in Senders, transferOk \in BOOLEAN,
          routerOut \in RouterOuts(MaxQuote) :
            SendExecuteTrade(contract, sender, MIN_TRADE_AMOUNT, transferOk, routerOut)
    \/ \E sender \in PMSenders, token \in PMTokens : AddToken(sender, token)
    \/ \E sender \in PMSenders, token \in PMTokens : RemoveToken(sender, token)
    \/ CreatePortfolio("alice", 5)
    \/ Deposit("alice", "USDC", MIN_DEPOSIT, TRUE)
    \/ \E sender \in PMSenders : ExecuteAITrade(sender, "alice", "USDC", "CBBTC", MIN_DEPOSIT)

SpecAccess == InitAccess /\ [][NextAccess]_vars

(***************************************************************************)
(* SpecPortfolio: calls of the PortfolioManager contract by its owner, the *)
(* AI trader and two users, for each version of the contract               *)
(***************************************************************************)
\* riskLevel arguments: both ends of 1..10 and their neighbours
RiskLevels == {0, 1, 10, 11}

\* amounts deposited: the first contract has a least amount
DepositAmounts == IF pmVersion = 1 THEN {MIN_DEPOSIT - 1, MIN_DEPOSIT} ELSE {MIN_DEPOSIT}

\* amounts withdrawn
WithdrawAmounts == {MIN_DEPOSIT, 2 * MIN_DEPOSIT}

InitPortfolio ==
    /\ ChainInit
    /\ ClockInit
    /\ revision = 3
    /\ InterfaceInit
    /\ AutoInit
    /\ FlowInit
    /\ SideInit
    /\ pmVersion \in Versions
    /\ approvedTokens = NewManager.approvedTokens
    /\ approvedTokenList = NewManager.approvedTokenList
    /\ userPortfolios = NewManager.userPortfolios
    /\ held = NewManager.held
    /\ txn = NoTxn

NextPortfolio ==
    \/ \E sender \in {"owner", "alice"}, token \in TokenAddresses :
            AddToken(sender, token)
    \/ \E sender \in {"owner", "alice"}, token \in PMTokens : RemoveToken(sender, token)
    \/ \E sender \in Users, riskLevel \in RiskLevels : CreatePortfolio(sender, riskLevel)
    \/ \E sender \in Users, token \in PMTokens, amount \in DepositAmounts,
          funded \in BOOLEAN :
            Deposit(sender, token, amount, funded)
    \/ \E sender \in Users, token \in PMTokens, amount \in WithdrawAmounts :
        \E recipient \in {"zero", sender} :
            Withdraw(sender, token, amount, recipient)
    \/ \E sender \in {"aiTrader", "alice"}, user \in Users, tokenIn \in PMTokens :
        \E tokenOut \in PMTokens \ {tokenIn} :
            ExecuteAITrade(sender, user, tokenIn, tokenOut, MIN_DEPOSIT)

SpecPortfolio == InitPortfolio /\ [][NextPortfolio]_vars

(***************************************************************************)
(* SpecSettings: the auto-trading settings of the PortfolioManager with    *)
(* them, written by two users                                              *)
(***************************************************************************)
\* _minConfidence arguments
Confidences == {70, 100, 101}

\* _maxRiskScore arguments
RiskScores == {20, 100, 101}

\* _tradeAmount arguments: nothing, and 100 USDC
TradeSizes == {0, 100000000}

InitSettings ==
    /\ ChainInit
    /\ ClockInit
    /\ revision = 3
    /\ InterfaceInit
    /\ AutoInit
    /\ FlowInit
    /\ SideInit
    /\ pmVersion = 3
    /\ approvedTokens = NewManager.approvedTokens
    /\ approvedTokenList = NewManager.approvedTokenList
    /\ userPortfolios = NewManager.userPortfolios
    /\ held = NewManager.held
    /\ txn = NoTxn

NextSettings ==
    \/ \E sender \in Users : CreatePortfolio(sender, 5)
    \/ \E sender \in Users, enabled \in BOOLEAN, minConfidence \in Confidences,
          maxRiskScore \in RiskScores, tradeAmount \in TradeSizes :
            UpdateAutoTrading(sender, enabled, minConfidence, maxRiskScore, tradeAmount)

SpecSettings == InitSettings /\ [][NextSettings]_vars

(***************************************************************************)
(* SpecPanel: the AutoTrading component of alice, whose portfolio is       *)
(* active with settings stored, or was never created                       *)
(***************************************************************************)
StoredSettings ==
    [NoPortfolio EXCEPT !.riskLevel = 5, !.isActive = TRUE, !.minConfidence = 70,
                        !.maxRiskScore = 30, !.tradeAmount = 50000000]

InitPanel ==
    /\ ChainInit
    /\ ClockInit
    /\ revision = 3
    /\ InterfaceInit
    /\ AutoInit
    /\ FlowInit
    /\ SideInit
    /\ pmVersion = 3
    /\ approvedTokens = NewManager.approvedTokens
    /\ approvedTokenList = NewManager.approvedTokenList
    /\ userPortfolios \in
          {[NewManager.userPortfolios EXCEPT !["alice"] = portfolio] :
              portfolio \in {NoPortfolio, StoredSettings,
                             [StoredSettings EXCEPT !.autoTrading = TRUE]}}
    /\ held = NewManager.held
    /\ txn = NoTxn

NextPanel ==
    \/ PanelLoads
    \/ \E checked \in BOOLEAN : PanelEdits("enabled", checked)
    \/ \E value \in TypedConfidences : PanelEdits("minConfidence", value)
    \/ \E value \in TypedRiskScores : PanelEdits("maxRiskScore", value)
    \/ \E value \in TypedAmounts : PanelEdits("tradeAmount", value)
    \/ PanelClicksUpdate
    \/ PanelUpdateEnds
    \/ PanelTimerFires

SpecPanel == InitPanel /\ [][NextPanel]_vars

(***************************************************************************)
(* SpecHoneypot: HoneypotChecker against a token whose supply and owner    *)
(* balance move                                                            *)
(***************************************************************************)
NextHoneypot ==
    \/ \E amount \in TokenMoves, toOwner \in BOOLEAN : TokenMint(amount, toOwner)
    \/ \E amount \in TokenMoves, toOwner \in BOOLEAN : TokenTransfer(amount, toOwner)
    \/ \E sellOk \in BOOLEAN : TokenSetSell(sellOk)
    \/ CallIsHoneypot

SpecHoneypot == InitFlow /\ [][NextHoneypot]_vars

(***************************************************************************)
(* Properties of the contract and of the quote path (SpecChain)            *)
(***************************************************************************)
ManualTradeCall == lastCall.fn \in {"executeManualTrade", "executeTrade"}

\* C2: a quote of amountOut = 0, in the front end or in the contract, is a
\* failure: it is never the accepted quote and no swap is executed on it.
C2_ZeroQuoteIsFailure ==
    /\ lastCall.status = "ok" => lastCall.quotedAmount > 0
    /\ sel.outcome = "ok" =>
          \/ sel.via = "direct" /\ directQuote(snap, sel.fee) = "ok"
          \/ sel.via = "path" /\ pathQuote(snap, sel.fee) = "ok"

\* C3: the amountOutMinimum of an executed manual trade is
\* floor(Q * (10000 - S) / 10000) for the quoted amount Q and the contract's
\* tolerance S, and a trade that completes returned at least that minimum.
C3_MinAmountOutIsFloor ==
    (ManualTradeCall /\ lastCall.status = "ok") =>
        /\ lastCall.minAmountOut * 10000 <= lastCall.quotedAmount * (10000 - MAX_SLIPPAGE)
        /\ lastCall.quotedAmount * (10000 - MAX_SLIPPAGE)
              < (lastCall.minAmountOut + 1) * 10000
        /\ lastCall.amountOut >= lastCall.minAmountOut

\* a manual trade completed on an odd quote, the router returning exactly
\* the truncated minimum
C3_Witness ==
    /\ lastCall.fn = "executeManualTrade"
    /\ lastCall.status = "ok"
    /\ lastCall.quotedAmount % 2 = 1
    /\ lastCall.quotedAmount > 1
    /\ lastCall.amountOut = lastCall.minAmountOut

\* C4: with the default slippage setting a swap for a quote Q is submitted
\* with minAmountOut = 95% of Q (tolerance 5% = 500 basis points).
C4_DefaultSlippageIsFivePercent ==
    (ManualTradeCall /\ lastCall.status = "ok") =>
        lastCall.minAmountOut = (lastCall.quotedAmount * (10000 - 500)) \div 10000

\* C9: the fee tier the front end selected and quoted is the fee tier the
\* contract uses in exactInputSingle for that trade.
C9_QuotedFeeIsExecutedFee ==
    (sel.outcome = "ok" /\ lastCall.status = "ok") => lastCall.fee = sel.fee

\* C10: a quoting failure is reported only when, for each pool with
\* liquidity whose single pool quote failed, the path-based quote was
\* attempted as well.
C10_PathTriedBeforeFailure ==
    (sel.origin # "none" /\ sel.outcome # "ok") => sel.direct \subseteq sel.path

C20_BestPoolIsGreatestBalance ==
    LET order == IF lastCall.fn = "executeTrade_v1" THEN SUPPORTED_FEES ELSE preferredFees
        pos(f) == CHOOSE k \in DOMAIN order : order[k] = f
    IN /\ lastCall.status = "ok" =>
            /\ snap[lastCall.fee].pool
            /\ \A f \in Fees :
                snap[f].pool =>
                    /\ snap[f].liq <= snap[lastCall.fee].liq
                    /\ snap[f].liq = snap[lastCall.fee].liq => pos(lastCall.fee) <= pos(f)
       /\ lastCall.reason \in {"No pool found", "No pool found for token pair"} =>
            \A f \in Fees : ~snap[f].pool

\* C21: the pool the front end's quote stage selects for the trade is the
\* deployed pool of greatest observed liquidity among those whose quote
\* succeeds.
C21_SelectedPoolIsMostLiquidQuotable ==
    sel.outcome = "ok" =>
        \A f \in Fees :
            (snap[f].pool /\ snap[f].liq > 0
                /\ (directQuote(snap, f) = "ok" \/ pathQuote(snap, f) = "ok"))
            => snap[f].liq <= snap[sel.fee].liq

\* C23: a call of the contract executes a swap only if both tokens of the
\* pair are whitelisted in the state the call runs in, whenever the owner
\* changed the whitelist before, and whether or not a front-end flow read
\* the whitelist earlier.
C23_SwapOnlyWhileWhitelisted ==
    [][(lastCall' # lastCall /\ lastCall'.status = "ok") =>
            /\ whitelistedTokens["USDC"] /\ whitelistedTokens["CBBTC"]
            /\ whitelistedTokens' = whitelistedTokens]_vars

\* a flow passed its whitelist reads and got its quote, the owner took a
\* token off the whitelist, and the flow's transaction reverted for it
C23_Witness ==
    /\ sel.outcome = "ok"
    /\ lastCall.fn = "executeManualTrade"
    /\ lastCall.status = "revert"
    /\ lastCall.reason = "Tokens not whitelisted"
    /\ ~whitelistedTokens["CBBTC"]

\* C27: poolQuotes holds no entry at any transaction boundary: each
\* executeManualTrade either reverts, which rolls back the entry it wrote, or
\* deletes the entry before it returns, so no later call finds a cached quote.
C27_NoQuoteOutlivesItsCall == poolQuotes = {}

\* an executeManualTrade of the first contract wrote its entry and returned
C27_Witness ==
    /\ lastCall.fn = "executeManualTrade_v1"
    /\ lastCall.status = "ok"
    /\ lastCall.quotedAmount > 0
    /\ poolQuotes = {}

\* C36: the encoded quote path is 43 bytes, tokenIn (20) then fee (3) then
\* tokenOut (20), and its fee field, read as the big-endian uint24 the quoter
\* reads, is the selected fee tier.
C36_PathIs43BytesWithTheSelectedFee ==
    sel.fee \in Fees =>
        LET encodedPath == EncodePath("USDC", sel.fee, "CBBTC") IN
        /\ Len(encodedPath) = 43
        /\ SubSeq(encodedPath, 1, 20) = getBytes("USDC")
        /\ SubSeq(encodedPath, 24, 43) = getBytes("CBBTC")
        /\ PathFee(encodedPath) = sel.fee

(***************************************************************************)
(* Properties of the manual flow (Spec)                                    *)
(***************************************************************************)
\* C1: executeManualTrade is submitted only after a quote succeeded earlier
\* in the same flow; a flow without a successful quote submits nothing.
\* (The first revision sends executeAITrade, not executeManualTrade.)
C1_QuoteBeforeSubmit ==
    \A t \in TradeTokens :
        (revision # 1 /\ trade[t].pc = "waiting") => trade[t].quoted

\* C6: in strict mode an attempt whose cooldown check runs less than
\* TRADE_COOLDOWN after the token's last successful trade ends with a
\* cooldown-active entry that reports the remaining time rounded up to
\* seconds, and only an attempt checked at or after TRADE_COOLDOWN passes.
C6_CooldownBoundary ==
    [][\A t \in TradeTokens :
        /\ ( /\ lastOutcome' # lastOutcome
             /\ lastOutcome'.token = t
             /\ lastOutcome'.outcome = "CooldownActive" ) =>
                /\ now - lastTradeTimes[t] < TRADE_COOLDOWN
                /\ lastOutcome'.remainingTime * 1000
                      >= TRADE_COOLDOWN - (now - lastTradeTimes[t])
                /\ (lastOutcome'.remainingTime - 1) * 1000
                      < TRADE_COOLDOWN - (now - lastTradeTimes[t])
        /\ ( /\ trade[t].pc # "submit"
             /\ trade'[t].pc = "submit"
             /\ ~trade'[t].degenMode ) =>
                now - lastTradeTimes[t] >= TRADE_COOLDOWN
      ]_vars

\* one second before the cooldown of a traded token is over, an attempt was
\* rejected with 1 second remaining
C6_Witness ==
    /\ lastOutcome.outcome = "CooldownActive"
    /\ lastOutcome.remainingTime = 1
    /\ \E t \in TradeTokens :
        /\ lastOutcome.token = t
        /\ lastTradeTimes[t] > 0
        /\ now - lastTradeTimes[t] = TRADE_COOLDOWN - 1000

\* C7: lastTradeTimes[token] changes only in the step in which the swap of
\* that token is confirmed with a successful receipt, and it becomes the time
\* of that step; every other end of a flow leaves all timestamps as they were.
C7_CooldownAdvancesOnSuccessOnly ==
    [][\A t \in TradeTokens :
        /\ lastTradeTimes'[t] # lastTradeTimes[t] =>
            /\ trade[t].pc = "waiting"
            /\ trade'[t].pc = "idle"
            /\ lastOutcome' = [token |-> t, outcome |-> "Success", remainingTime |-> 0]
            /\ lastTradeTimes'[t] = now
        /\ ( /\ lastOutcome' # lastOutcome
             /\ lastOutcome'.token = t
             /\ lastOutcome'.outcome # "Success" ) =>
                lastTradeTimes' = lastTradeTimes
      ]_vars

\* one token was traded, the swap of another was mined and failed and its
\* timestamp is still unset
C7_Witness ==
    \E t \in TradeTokens, u \in TradeTokens :
        /\ t # u
        /\ lastTradeTimes[t] > 0
        /\ lastTradeTimes[u] = 0
        /\ lastOutcome = [token |-> u, outcome |-> "TransactionFailed", remainingTime |-> 0]

\* C12: the cooldown check is evaluated before the confidence, risk and
\* honeypot checks, so a strict-mode attempt is rejected for its prediction
\* only when the token's cooldown is not active.
C12_CooldownCheckedBeforePrediction ==
    [][\A t \in TradeTokens :
        ( /\ lastOutcome' # lastOutcome
          /\ lastOutcome'.token = t
          /\ lastOutcome'.outcome \in {"ConfidenceTooLow", "RiskTooHigh", "Honeypot"} ) =>
            now - lastTradeTimes[t] >= TRADE_COOLDOWN
      ]_vars

\* C13: a strict-mode flow whose prediction fails a condition ends with the
\* rejection of the first condition it fails and sends nothing; a DEGEN MODE
\* flow is never rejected for a condition, logs exactly one warning for each
\* condition its prediction fails and goes on to execution.
C13_StrictRejectsDegenWarns ==
    [][\A t \in TradeTokens :
        /\ ( /\ trade[t].pc = "prechecks"
             /\ trade'[t] # trade[t]
             /\ ~trade[t].degenMode
             /\ trade[t].verdict # {} ) =>
                /\ trade'[t].pc = "idle"
                /\ lastOutcome'.token = t
                /\ lastOutcome'.outcome \in
                      {"NoActivePortfolio", "TokensNotApproved", "NotWhitelisted"}
                      \cup (LiquidityOutcomes[t = "CBBTC", trade[t].amountIn] \ {"ok"})
                      \cup {IF "confidence" \in trade[t].verdict THEN "ConfidenceTooLow"
                            ELSE IF "risk" \in trade[t].verdict THEN "RiskTooHigh"
                            ELSE "Honeypot"}
        /\ ( /\ trade[t].pc # "submit"
             /\ trade'[t].pc = "submit"
             /\ ~trade'[t].degenMode ) =>
                /\ trade'[t].verdict = {}
                /\ trade'[t].warnings = <<>>
        /\ ( /\ trade[t].pc # "submit"
             /\ trade'[t].pc = "submit"
             /\ trade'[t].degenMode ) =>
                /\ Len(trade'[t].warnings) = Cardinality(trade'[t].verdict)
                /\ "confidence" \in trade'[t].verdict <=>
                      \E i \in DOMAIN trade'[t].warnings :
                          trade'[t].warnings[i] = "Ignoring low confidence"
                /\ "risk" \in trade'[t].verdict <=>
                      \E i \in DOMAIN trade'[t].warnings :
                          trade'[t].warnings[i] = "Ignoring high risk score"
                /\ "honeypot" \in trade'[t].verdict <=>
                      \E i \in DOMAIN trade'[t].warnings :
                          trade'[t].warnings[i] = "Ignoring honeypot warning"
        /\ ( /\ trade[t].pc \in {"idle", "prechecks"}
             /\ trade'[t].pc = "idle"
             /\ lastOutcome' # lastOutcome
             /\ lastOutcome'.token = t
             /\ lastOutcome'.outcome \in
                   {"ConfidenceTooLow", "RiskTooHigh", "Honeypot", "CooldownActive"} ) =>
                ~(IF trade[t].pc = "idle" THEN degenMode ELSE trade[t].degenMode)
      ]_vars

\* a DEGEN MODE flow is about to send its trade for a prediction that fails
\* all three conditions, less than TRADE_COOLDOWN after the token's last trade
C13_Witness ==
    \E t \in TradeTokens :
        /\ trade[t].pc = "submit"
        /\ trade[t].degenMode
        /\ trade[t].verdict = {"confidence", "risk", "honeypot"}
        /\ Len(trade[t].warnings) = 3
        /\ lastTradeTimes[t] > 0
        /\ now - lastTradeTimes[t] < TRADE_COOLDOWN

\* C38: after the user turns Auto-Trading (All Enabled Tokens) on, the loop
\* fetches a prediction and attempts a trade for every enabled token (and
\* repeats after a cooldown-length wait, until the user turns it off).
C38_TurningOnStartsAPass ==
    [][(revision = 1 /\ ~autoTrading /\ autoTrading')
          => toggleAutoTrading(autoTrading, TradeTokens).pass = TradeTokens]_vars

(***************************************************************************)
(* Properties of the auto-trading loop (SpecAuto)                          *)
(***************************************************************************)
\* C5: after a successful trade no further trade of the token is submitted
\* before TRADE_COOLDOWN has passed, whichever way the trade is fired.
\* (AutoTrading has no bypass mode.)
C5_CooldownBetweenTrades ==
    lastSubmit.lastSuccessAt > 0 =>
        lastSubmit.at >= lastSubmit.lastSuccessAt + TRADE_COOLDOWN

\* C8: at most one checkAndExecuteTrade cycle is running at any time.
C8_CyclesNeverOverlap == Running(cycles) <= 1

\* C22: once the component is unmounted no checkAndExecuteTrade cycle
\* begins, and while the interval is cleared (auto-trading stopped, or the
\* component unmounted) no cycle goes on from its checks and quote to the
\* stage that sends the allowance approval and the swap.
C22_StoppedCyclesSendNothing ==
    [][/\ ~mounted => cycles'["checks"] <= cycles["checks"]
       /\ (autoTradingInterval = 0 \/ ~mounted) =>
            /\ cycles'["submit"] <= cycles["submit"]
            /\ lastSubmit' = lastSubmit]_vars

(***************************************************************************)
(* Properties of one trade flow (SpecFlow)                                 *)
(***************************************************************************)
\* C14: no transaction, approvals included, is sent in a flow before the
\* whitelist and minimum amount validation, the pool search and the quote
\* have all succeeded in that flow.  (checkPoolLiquidity of TradingInterface
\* rejects amounts below its suggested minimum, which is never below the
\* minimum trade amount.)
C14_NoTransactionBeforeQuote ==
    \A i \in DOMAIN flow.events :
        flow.events[i] \in {"ApprovalSent", "SwapSent"} =>
            /\ \E j \in 1..(i - 1) : flow.events[j] = "whitelist"
            /\ \E j \in 1..(i - 1) : flow.events[j] = "pool"
            /\ \/ \E j \in 1..(i - 1) : flow.events[j] = "minimum"
               \/ flow.comp = "TradingInterface2" /\ flow.amountIn >= MIN_TRADE_AMOUNT

\* C15: a flow whose wallet holds less than amountIn of the input token
\* sends no transaction, neither an approval nor the swap.
C15_NoTransactionWithoutBalance ==
    (flow.comp # "none" /\ ~flow.walletOk) =>
        \A i \in DOMAIN flow.events : flow.events[i] \notin {"ApprovalSent", "SwapSent"}

\* C16: the swap is sent only when every approval sent before it in the flow
\* was confirmed, never while one is pending or after one failed, and with
\* the allowance of the GoDegen contract read or granted at no less than
\* amountIn.
C16_ApprovalAwaitedBeforeSwap ==
    /\ flow.pending => \A i \in DOMAIN flow.events : flow.events[i] # "SwapSent"
    /\ flow.outcome = "approval failed" =>
            \A i \in DOMAIN flow.events : flow.events[i] # "SwapSent"
    /\ \A i \in DOMAIN flow.events :
        flow.events[i] = "SwapSent" =>
            /\ Cardinality({j \in 1..(i - 1) : flow.events[j] = "ApprovalSent"})
                  = Cardinality({j \in 1..(i - 1) : flow.events[j] = "ApprovalConfirmed"})
            /\ \A j \in 1..(i - 1) :
                    flow.events[j] = "ApprovalSent" =>
                        j + 1 < i /\ flow.events[j + 1] = "ApprovalConfirmed"
            /\ \E j \in 1..(i - 1) : flow.events[j] = "allowance"
            /\ flow.allowance >= flow.amountIn

\* the allowance read was one unit short, the approval was sent and
\* confirmed, and the swap went out after it
C16_Witness ==
    /\ flow.comp = "TradingInterface2"
    /\ flow.pc = "wait"
    /\ flow.allowance = MaxUint256
    /\ \E i \in 1..(Len(flow.events) - 2) :
        /\ flow.events[i] = "ApprovalSent"
        /\ flow.events[i + 1] = "ApprovalConfirmed"
        /\ flow.events[i + 2] = "allowance"

\* C17: a swap that was mined and failed ends the flow with an error other
\* than the one for a missing receipt, and neither of the two is logged as
\* a success or counted as an executed trade.
C17_FailedReceiptIsNotSuccess ==
    /\ flow.receipt = "reverted" =>
            /\ flow.pc = "done"
            /\ ~flow.executed
            /\ flow.outcome \notin
                    {"Failed to get transaction receipt", "Trade executed successfully"}
    /\ flow.receipt = "none" =>
            /\ flow.pc = "done"
            /\ ~flow.executed
            /\ flow.outcome = "Failed to get transaction receipt"
    /\ flow.executed =>
            /\ flow.receipt = "success"
            /\ flow.outcome = "Trade executed successfully"

\* a flow of the second revision ended on a swap that was mined and reverted
C17_Witness ==
    /\ flow.comp = "TradingInterface2"
    /\ flow.receipt = "reverted"
    /\ flow.outcome = "Transaction reverted."
    /\ flow.events[Len(flow.events)] = "SwapSent"

\* C18: a flow sends the swap at most once, and a swap that was rejected,
\* reverted or left without a receipt ends the flow without another send.
C18_SwapSubmittedAtMostOnce ==
    /\ Cardinality({i \in DOMAIN flow.events : flow.events[i] = "SwapSent"}) <= 1
    /\ flow.receipt \in {"reverted", "none"} =>
            /\ flow.pc = "done"
            /\ flow.events[Len(flow.events)] = "SwapSent"
    /\ flow.outcome \in {"transaction rejected", "estimateGas failed"} =>
            /\ flow.pc = "done"
            /\ \A i \in DOMAIN flow.events : flow.events[i] # "SwapSent"

\* a cycle of AutoTrading ended on its one swap, mined and reverted
C18_Witness ==
    /\ flow.comp = "AutoTrading"
    /\ flow.pc = "done"
    /\ flow.receipt = "reverted"
    /\ Cardinality({i \in DOMAIN flow.events : flow.events[i] = "SwapSent"}) = 1

\* C19: every flow that ends without a successful trade has called addLog or
\* setError at least once.
C19_EveryFailureIsObserved ==
    (flow.pc = "done" /\ ~flow.executed) => flow.observed

C34_FetchedPredictionContinuesFlow ==
    (/\ flow.comp = "TradingInterface2"
     /\ \E i \in DOMAIN flow.events : flow.events[i] = "fetchPrediction"
     /\ flow.pc = "done")
        => flow.outcome # "Failed to fetch prediction data"

(***************************************************************************)
(* Properties of the restricted calls (SpecAccess)                         *)
(***************************************************************************)
\* C24: the GoDegen whitelist changes only in a whitelistToken call of the
\* owner, the approved tokens of the PortfolioManager only in an addToken
\* or removeToken call of the owner; executeTrade does not revert only when
\* the AI oracle calls it, executeAITrade only when the AI trader calls it;
\* and a reverted call leaves the whitelist and the PortfolioManager's
\* storage and balances as they were.
C24_RestrictedCallsNeedTheirCaller ==
    [][/\ whitelistedTokens' # whitelistedTokens =>
            txn'.fn = "whitelistToken" /\ txn'.sender = "owner"
       /\ (approvedTokens' # approvedTokens \/ approvedTokenList' # approvedTokenList) =>
            txn'.fn \in {"addToken", "removeToken"} /\ txn'.sender = "owner"
       /\ (txn'.fn \in {"executeTrade", "executeTrade_v1"} /\ txn'.status = "ok") =>
            txn'.sender = "aiOracle"
       /\ (txn'.fn = "executeAITrade" /\ txn'.status = "ok") => txn'.sender = "aiTrader"
       /\ txn'.status = "revert" =>
            /\ whitelistedTokens' = whitelistedTokens
            /\ Manager' = Manager]_vars

\* a caller other than the AI trader had executeAITrade reverted for a user
\* whose trade the AI trader could have made, after the owner put a token
\* on the GoDegen whitelist
C24_Witness ==
    /\ txn.fn = "executeAITrade"
    /\ txn.status = "revert"
    /\ txn.reason = "Not AI trader"
    /\ approvedTokens["USDC"] /\ approvedTokens["CBBTC"]
    /\ userPortfolios["alice"].tokenBalances["USDC"] >= MIN_DEPOSIT
    /\ whitelistedTokens["USDC"]

(***************************************************************************)
(* Properties of the PortfolioManager (SpecPortfolio)                      *)
(***************************************************************************)
\* C25: a deposit that does not revert adds exactly the amount to the
\* caller's recorded balance of the token and changes no other portfolio
\* field; a withdraw that does not revert found the caller's recorded
\* balance of the token at least the amount and takes exactly the amount
\* from it, changing nothing else recorded; a reverted deposit or withdraw
\* changes no portfolio; and no recorded balance is negative.
C25_DepositWithdrawFrame ==
    [][/\ (txn'.fn = "deposit" /\ txn'.status = "ok") =>
            userPortfolios' =
                [userPortfolios EXCEPT ![txn'.sender].tokenBalances[txn'.token] =
                                            @ + txn'.amount]
       /\ (txn'.fn = "withdraw" /\ txn'.status = "ok") =>
            /\ userPortfolios[txn'.sender].tokenBalances[txn'.token] >= txn'.amount
            /\ userPortfolios' =
                [userPortfolios EXCEPT ![txn'.sender].tokenBalances[txn'.token] =
                                            @ - txn'.amount]
       /\ (txn'.fn \in {"deposit", "withdraw"} /\ txn'.status = "revert") =>
            userPortfolios' = userPortfolios
       /\ \A u \in PMSenders, t \in PMTokens :
            userPortfolios'[u].tokenBalances[t] >= 0]_vars

\* a user withdrew all of a token while the other user has a recorded
\* balance of the same token
C25_Witness ==
    /\ txn.fn = "withdraw"
    /\ txn.status = "ok"
    /\ txn.amount > 0
    /\ userPortfolios[txn.sender].tokenBalances[txn.token] = 0
    /\ \E u \in Users \ {txn.sender} : userPortfolios[u].tokenBalances[txn.token] > 0

\* C28: a createPortfolio call that does not revert came from a caller
\* without an active portfolio, with a risk level in 1..10, which it stores;
\* no call changes the riskLevel of an active portfolio or makes an active
\* portfolio inactive; so every active portfolio has a riskLevel in 1..10.
C28_PortfolioCreatedOnce ==
    [][/\ (txn'.fn = "createPortfolio" /\ txn'.status = "ok") =>
            /\ ~userPortfolios[txn'.sender].isActive
            /\ txn'.amount \in 1..10
            /\ userPortfolios'[txn'.sender].isActive
            /\ userPortfolios'[txn'.sender].riskLevel = txn'.amount
       /\ \A u \in PMSenders :
            /\ userPortfolios[u].isActive =>
                    /\ userPortfolios'[u].isActive
                    /\ userPortfolios'[u].riskLevel = userPortfolios[u].riskLevel
            /\ userPortfolios'[u].isActive => userPortfolios'[u].riskLevel \in 1..10]_vars

\* with portfolios of risk level 1 and 10 active, a createPortfolio call of
\* a user who has one was reverted
C28_Witness ==
    /\ txn.fn = "createPortfolio"
    /\ txn.status = "revert"
    /\ txn.reason = "Portfolio exists"
    /\ \A u \in Users : userPortfolios[u].isActive
    /\ {userPortfolios[u].riskLevel : u \in Users} = {1, 10}

\* C30: for every token, the recorded balances of all portfolios add up to
\* no more than the contract holds of the token.
C30_RecordedWithinHeld ==
    \A t \in PMTokens :
        userPortfolios["alice"].tokenBalances[t] + userPortfolios["bob"].tokenBalances[t]
            + userPortfolios["owner"].tokenBalances[t]
            + userPortfolios["aiTrader"].tokenBalances[t] <= held[t]

\* C31: a user with a positive recorded balance of a token the owner has
\* removed from the approved set can withdraw that balance; a deposit of the
\* token and an AI trade of it revert.  (The second contract records amounts
\* it may not hold; there the withdrawal is of a balance the contract holds.)
C31_RemovedTokenStillWithdrawable ==
    \A u \in Users, token \in PMTokens :
        LET balance == userPortfolios[u].tokenBalances[token] IN
        (balance > 0 /\ ~approvedTokens[token] /\ (pmVersion = 2 => held[token] >= balance))
            => /\ withdraw(Manager, pmVersion, u, token, balance, u).status = "ok"
               /\ deposit(Manager, pmVersion, u, token, MIN_DEPOSIT, TRUE).reason
                      = "Token not approved"
               /\ \A tokenOut \in PMTokens \ {token} :
                      executeAITrade(Manager, pmVersion, "aiTrader", u, token, tokenOut,
                                     balance, balance).reason = "Unapproved tokens"

\* a withdrawal of the first contract returned while the token was not approved
C31_Witness ==
    /\ pmVersion = 1
    /\ txn.fn = "withdraw"
    /\ txn.status = "ok"
    /\ txn.amount > 0
    /\ ~approvedTokens[txn.token]

\* C32: in the first contract, after any addToken and removeToken calls,
\* approvedTokenList contains a token exactly when approvedTokens[token] is
\* true, contains it at most once, and getPortfolioTokens reports no token twice.
C32_ListMatchesApprovedSet ==
    pmVersion = 1 =>
        /\ \A token \in TokenAddresses :
              /\ (\E i \in DOMAIN approvedTokenList : approvedTokenList[i] = token)
                    <=> approvedTokens[token]
              /\ Cardinality({i \in DOMAIN approvedTokenList :
                                  approvedTokenList[i] = token}) <= 1
        /\ \A u \in Users :
              LET tokens == getPortfolioTokens(Manager, u).returned IN
              userPortfolios[u].isActive =>
                  \A i, j \in DOMAIN tokens : tokens[i] = tokens[j] => i = j

(***************************************************************************)
(* Properties of the AutoTrading component render by render (SpecPanel)    *)
(***************************************************************************)
\* C33: once settings have been loaded, every cycle, the one started by
\* loadSettings and those of the interval timer included, works with the
\* minConfidence, maxRiskScore and tradeAmount last loaded from the
\* contract or saved by the user, never with the initial defaults or an
\* older snapshot.
C33_CyclesUseLatestSettings ==
    [][(panel'.cycle.seq # panel.cycle.seq /\ panel'.latest # {})
          => panel'.cycle.used = panel'.latest]_vars

\* C35: updateSettings starts or stops the loop only after the
\* updateAutoTrading transaction is confirmed; if the transaction is
\* rejected or reverts, whether the loop runs is unchanged, the error state
\* is set and the updating flag is cleared.
C35_LoopFollowsConfirmedUpdateOnly ==
    [][/\ (panel.pending = {} /\ panel'.pending # {}) =>
            /\ panel'.timer = panel.timer
            /\ panel'.cycle = panel.cycle
            /\ panel'.updating
       /\ (panel.pending # {} /\ panel'.pending = {}) =>
            /\ ~panel'.updating
            /\ IF panel'.lastUpdate = "confirmed"
               THEN /\ txn'.fn = "updateAutoTrading" /\ txn'.status = "ok"
                    /\ (panel'.timer # {}) <=> (\E s \in panel.pending : s.enabled)
                    /\ ~panel'.error
               ELSE /\ panel'.lastUpdate \in {"rejected", "reverted"}
                    /\ (panel'.timer # {}) <=> (panel.timer # {})
                    /\ panel'.timer = panel.timer
                    /\ panel'.cycle = panel.cycle
                    /\ panel'.error
                    /\ userPortfolios' = userPortfolios]_vars

\* the loop was running, the user unticked Enable Auto-Trading and typed a
\* confidence above 100, the transaction reverted, and the loop still runs
C35_Witness ==
    /\ panel.lastUpdate = "reverted"
    /\ panel.timer # {}
    /\ ~panel.settings.enabled
    /\ panel.error
    /\ ~panel.updating
    /\ txn.reason = "Invalid confidence"

(***************************************************************************)
(* Properties of the HoneypotChecker (SpecHoneypot)                        *)
(***************************************************************************)
\* C37: isHoneypot(token) returns true exactly when the sell probe fails or
\* the owner's balance is strictly more than 80% of the total supply, for
\* every owner balance and non-zero total supply.
C37_HoneypotIffSellFailsOrOwnerOver80 ==
    (checker.answer.status # "none" /\ checker.token.totalSupply # 0) =>
        /\ checker.answer.status = "ok"
        /\ checker.answer.result <=>
              \/ ~checker.token.sellOk
              \/ checker.token.ownerBalance * 100 > 80 * checker.token.totalSupply

(***************************************************************************)
(* Properties of the auto-trading settings (SpecSettings)                  *)
(***************************************************************************)
\* C29: updateAutoTrading goes through exactly when the caller has an
\* active portfolio, minConfidence <= 100, maxRiskScore <= 100 and
\* tradeAmount > 0; when it goes through, getAutoTradingSettings of the
\* caller returns the four arguments; what getAutoTradingSettings returns
\* for a user changes in no other step; and the stored thresholds are in
\* 0..100.
C29_SettingsAreLastUpdate ==
    [][/\ \A u \in Users, mc \in Confidences, mr \in RiskScores, ta \in TradeSizes :
            updateAutoTrading(Manager, u, TRUE, mc, mr, ta).status = "ok"
                <=> (userPortfolios[u].isActive /\ mc <= 100 /\ mr <= 100 /\ ta > 0)
       /\ (txn'.fn = "updateAutoTrading" /\ txn'.status = "ok") =>
            /\ userPortfolios[txn'.sender].isActive
            /\ txn'.minConfidence <= 100 /\ txn'.maxRiskScore <= 100 /\ txn'.amount > 0
            /\ getAutoTradingSettings(Manager', txn'.sender) =
                    <<txn'.enabled, txn'.minConfidence, txn'.maxRiskScore, txn'.amount>>
       /\ \A u \in Users :
            ~(txn'.fn = "updateAutoTrading" /\ txn'.status = "ok" /\ txn'.sender = u) =>
                getAutoTradingSettings(Manager', u) = getAutoTradingSettings(Manager, u)
       /\ \A u \in Users :
            /\ userPortfolios'[u].minConfidence \in 0..100
            /\ userPortfolios'[u].maxRiskScore \in 0..100]_vars

\* an update with both thresholds at 100 was stored, after the other user
\* stored different settings, and is what getAutoTradingSettings returns
C29_Witness ==
    /\ txn.fn = "updateAutoTrading"
    /\ txn.status = "ok"
    /\ getAutoTradingSettings(Manager, txn.sender) = <<FALSE, 100, 100, 100000000>>
    /\ \E u \in Users \ {txn.sender} :
            getAutoTradingSettings(Manager, u) = <<TRUE, 70, 20, 100000000>>

====
